---- MODULE Spec2Model ----
(***************************************************************************)
(* Model of fs_common/src/game/common/world/simulator.rs: the chunk step   *)
(* (Simulator::simulate_chunk over a 3x3 neighbourhood of chunk buffers),  *)
(* the shared per-pixel transition rule (Simulator::simulate_pixel) and    *)
(* the rigid-body step (Simulator::simulate_rigidbodies).                  *)
(*                                                                         *)
(* The two entry points are loops over pixels that draw random numbers per *)
(* pixel.  Each is modelled by its loop: one action enters the function    *)
(* (everything before the loop), one action runs one iteration of the loop *)
(* body, and the action that runs the last iteration also runs everything  *)
(* the function does after the loop (finish_dirty_rects; the image/remesh  *)
(* passes), so a call that has started can only run to its end.            *)
(* Random draws are the inputs of the iteration (\E over their outcomes).  *)
(***************************************************************************)
EXTENDS Integers, Sequences, FiniteSets, TLC

VARIABLES
    chunk_data,   \* [SimulatorChunkContext; 9] lent to simulate_chunk
    particles,    \* Vec<Particle> shared by both steps
    helper,       \* SimulationHelperChunk's trackers (min_x, min_y, max_x, max_y) + history of writes
    loop,         \* position of simulate_chunk's scan: my_dirty_rect, the direction coin, x, y
    pc,           \* "idle" (between calls) | "scan" (inside simulate_chunk's loop)
    origin,       \* (chunk_x, chunk_y) arguments of simulate_chunk
    mirror,       \* a second call site of simulate_chunk: the mirrored run, or a concurrent one
    probe,        \* arguments and result of one call of a function taken on its own
    scene,        \* the configuration a run or a call started from (history, never read by an action)
    chunk_handler, \* ChunkHandler: the loaded world chunks by chunk coordinate
    rigidbodies,  \* Vec<FSRigidBody>
    physics_world, \* physics: &mut Physics, the bodies by handle
    step          \* simulate_rigidbodies: position, dirty and needs_remesh flags

body_vars == <<chunk_handler, rigidbodies, physics_world, step>>
vars == <<chunk_data, particles, helper, loop, pc, origin, mirror, probe, scene,
          chunk_handler, rigidbodies, physics_world, step>>

(***************************************************************************)
(* Bounds of the model.                                                    *)
(***************************************************************************)
\* Side of a chunk.  The program's constant (world::CHUNK_SIZE, a u16) is
\* larger; the reads of simulate_pixel reach 5 rows down and 2 columns
\* sideways, which a side of 5 already takes across every chunk border.
CHUNK_SIZE == 5
\* How many non-air pixels an initial configuration places.
MaxPlaced == 2
\* Tallest sand column and deepest air shaft of the settling scenario.
MaxColumn == 2
MaxShaft == 2
MaxBodies == 2
MaxSide == 2
MaxPieces == 2

\* Option::None, for values that are records when present.
None == [none |-> TRUE]
\* Option<MaterialInstance>::None
NoMat == "none"
CENTER_CHUNK == 4

Min(a, b) == IF a < b THEN a ELSE b
Max(a, b) == IF a > b THEN a ELSE b

(***************************************************************************)
(* MaterialInstance.  A pixel is written by its material_id; physics,      *)
(* color and light are the fields of the instance with that id.  Pixels    *)
(* are replaced whole (clone), never changed in a field.                   *)
(***************************************************************************)
air == "air"       \* MaterialInstance::air()
sand == "sand"     \* a material of PhysicsType::Sand
stone == "stone"   \* a material of PhysicsType::Solid

physics(m) == CASE m = "air" -> "Air" [] m = "sand" -> "Sand" [] OTHER -> "Solid"
color(m) == CASE m = "air" -> "clear" [] m = "sand" -> "yellow" [] OTHER -> "grey"
light(m) == CASE m = "sand" -> 1 [] OTHER -> 0

(***************************************************************************)
(* Rect<i32>: new_wh, range_lr, range_tb.                                  *)
(***************************************************************************)
Rect_new_wh(x, y, w, h) == [x1 |-> x, y1 |-> y, x2 |-> x + w - 1, y2 |-> y + h - 1]
range_lr(r) == r.x1 .. r.x2
range_tb(r) == r.y1 .. r.y2

(***************************************************************************)
(* Integer conversions and divisions of local_to_indices.                  *)
(***************************************************************************)
as_i8(v) == ((v + 128) % 256) - 128
as_u16(v) == v % 65536
\* `as usize` of a non-negative value keeps it; a negative i8 sign-extends to
\* 2^64 + v, which is past the end of every buffer: 2^30 + v stands for it.
as_usize(v) == IF v >= 0 THEN v ELSE 1073741824 + v

\* Rust's `/` and `%` on i32 truncate toward zero.
div_trunc(a, b) == IF a >= 0 THEN a \div b ELSE -((-a) \div b)
rem_trunc(a, b) == a - b * div_trunc(a, b)

\* Mutant: the quotient truncated toward zero instead of floored.
div_euclid_truncating(a, b) == div_trunc(a, b)

div_euclid(a, b) ==
    LET q == div_trunc(a, b)
    IN  IF rem_trunc(a, b) < 0 THEN (IF b > 0 THEN q - 1 ELSE q + 1) ELSE q

rem_euclid(a, b) ==
    LET r == rem_trunc(a, b)
    IN  IF r < 0 THEN (IF b < 0 THEN r - b ELSE r + b) ELSE r

\* (chunk index, pixel index, pixel x in chunk, pixel y in chunk)
local_to_indices(x, y) ==
    LET size == CHUNK_SIZE
        rel_chunk_x == as_i8(div_euclid(x, CHUNK_SIZE))
        rel_chunk_y == as_i8(div_euclid(y, CHUNK_SIZE))
        chunk_px_x == as_u16(rem_euclid(x, size))
        chunk_px_y == as_u16(rem_euclid(y, size))
    IN  << as_usize(rel_chunk_x + 1) + as_usize(rel_chunk_y + 1) * 3,
           as_usize(as_u16(chunk_px_x + chunk_px_y * CHUNK_SIZE)),
           chunk_px_x,
           chunk_px_y >>

(***************************************************************************)
(* SimulationHelperChunk.  h is the helper struct: chunk_data, the four    *)
(* tracker arrays, particles, chunk_x, chunk_y; h.written is a history of  *)
(* the cells set_pixel_from_index wrote in this call (not program state).  *)
(***************************************************************************)
get_pixel_from_index(h, idx) == h.chunk_data[idx[1]].pixels[idx[2]]
borrow_pixel_from_index(h, idx) == h.chunk_data[idx[1]].pixels[idx[2]]

\* Mutant: the write does not move the max_y tracker.
set_pixel_from_index_no_max_y(h, idx, mat) ==
    LET ch == idx[1]
        px == idx[2]
        ch_x == idx[3]
        ch_y == idx[4]
    IN  [h EXCEPT !.chunk_data[ch].pixels[px] = mat,
                  !.min_x[ch] = Min(@, ch_x),
                  !.min_y[ch] = Min(@, ch_y),
                  !.max_x[ch] = Max(@, ch_x),
                  !.written = @ \cup {<<ch, ch_x, ch_y>>}]

set_pixel_from_index(h, idx, mat) ==
    LET ch == idx[1]
        px == idx[2]
        ch_x == idx[3]
        ch_y == idx[4]
    IN  [h EXCEPT !.chunk_data[ch].pixels[px] = mat,
                  !.min_x[ch] = Min(@, ch_x),
                  !.min_y[ch] = Min(@, ch_y),
                  !.max_x[ch] = Max(@, ch_x),
                  !.max_y[ch] = Max(@, ch_y),
                  !.written = @ \cup {<<ch, ch_x, ch_y>>}]

\* colors holds one packed RGBA value per pixel (four bytes in the program).
set_color_from_index(h, idx, col) ==
    [h EXCEPT !.chunk_data[idx[1]].colors[idx[2]] = col,
              !.chunk_data[idx[1]].dirty = TRUE]

set_light_from_index(h, idx, lgt) ==
    [h EXCEPT !.chunk_data[idx[1]].lights[idx[2]] = lgt]

\* The unchecked tier indexes the same cells; process only passes it
\* coordinates of the center dirty rectangle.
get_pixel_local_unchecked(h, x, y) == get_pixel_from_index(h, local_to_indices(x, y))
set_pixel_local_unchecked(h, x, y, mat) == set_pixel_from_index(h, local_to_indices(x, y), mat)
set_color_local_unchecked(h, x, y, col) == set_color_from_index(h, local_to_indices(x, y), col)
set_light_local_unchecked(h, x, y, lgt) == set_light_from_index(h, local_to_indices(x, y), lgt)

\* impl SimulationHelper for SimulationHelperChunk
Chunk_borrow_pixel_local(h, x, y) == borrow_pixel_from_index(h, local_to_indices(x, y))

\* Mutant: the pixel is written two rows above the coordinate given.
Chunk_set_pixel_local_two_up(h, x, y, mat) ==
    set_pixel_from_index(h, local_to_indices(x, y - 2), mat)

Chunk_set_pixel_local(h, x, y, mat) == set_pixel_from_index(h, local_to_indices(x, y), mat)
Chunk_set_color_local(h, x, y, col) == set_color_from_index(h, local_to_indices(x, y), col)
Chunk_set_light_local(h, x, y, lgt) == set_light_from_index(h, local_to_indices(x, y), lgt)

\* Mutant: the new particle replaces the list.
Chunk_add_particle_replaces(h, material, pos) ==
    [h EXCEPT !.particles =
        << [material |-> material,
            pos |-> << pos[1] + h.chunk_x * CHUNK_SIZE, pos[2] + h.chunk_y * CHUNK_SIZE >>] >>]

\* Mutant: the particle is put at the local coordinate.
Chunk_add_particle_local(h, material, pos) ==
    [h EXCEPT !.particles = Append(@, [material |-> material, pos |-> pos])]

\* Particle::new(material, pos + chunk * CHUNK_SIZE, vel).  The velocity is
\* a pair of random floats no rule reads; it is left out.
Chunk_add_particle(h, material, pos) ==
    [h EXCEPT !.particles = Append(@,
        [material |-> material,
         pos |-> << pos[1] + h.chunk_x * CHUNK_SIZE, pos[2] + h.chunk_y * CHUNK_SIZE >>])]

\* Mutant: a chunk nothing was written in is left wholly dirty, not clean.
Rect_of_trackers_never_clean(h, i) ==
    IF h.min_x[i] = CHUNK_SIZE + 1
    THEN Rect_new_wh(0, 0, CHUNK_SIZE, CHUNK_SIZE)
    ELSE Rect_new_wh(h.min_x[i], h.min_y[i],
                     h.max_x[i] - h.min_x[i] + 1, h.max_y[i] - h.min_y[i] + 1)

Rect_of_trackers(h, i) ==
    IF h.min_x[i] = CHUNK_SIZE + 1
    THEN None
    ELSE Rect_new_wh(h.min_x[i], h.min_y[i],
                     h.max_x[i] - h.min_x[i] + 1, h.max_y[i] - h.min_y[i] + 1)

\* Mutant: only the center chunk gets a new dirty rectangle.
finish_dirty_rects_center_only(h) ==
    [h EXCEPT !.chunk_data =
        [i \in 0..8 |-> IF i = CENTER_CHUNK
                        THEN [h.chunk_data[i] EXCEPT !.dirty_rect = Rect_of_trackers(h, i)]
                        ELSE h.chunk_data[i]]]

finish_dirty_rects(h) ==
    [h EXCEPT !.chunk_data =
        [i \in 0..8 |-> [h.chunk_data[i] EXCEPT !.dirty_rect = Rect_of_trackers(h, i)]]]

(***************************************************************************)
(* ChunkHandler, as simulate_rigidbodies uses it: a map from the chunk     *)
(* coordinates that are loaded to the chunk's pixels and colors.  World    *)
(* coordinates are pixels; chunk (cx, cy) holds x in cx*CHUNK_SIZE ..      *)
(* cx*CHUNK_SIZE + CHUNK_SIZE - 1, and y likewise.                         *)
(***************************************************************************)
pixel_to_chunk_pos(x, y) == << div_euclid(x, CHUNK_SIZE), div_euclid(y, CHUNK_SIZE) >>
ChunkPixelIndex(x, y) == rem_euclid(x, CHUNK_SIZE) + rem_euclid(y, CHUNK_SIZE) * CHUNK_SIZE
ChunkHandler_loaded(ch, x, y) == pixel_to_chunk_pos(x, y) \in DOMAIN ch
\* get: Ok(material) where a chunk is loaded, Err otherwise.
ChunkHandler_get(ch, x, y) ==
    IF ChunkHandler_loaded(ch, x, y)
    THEN [ok |-> TRUE, mat |-> ch[pixel_to_chunk_pos(x, y)].pixels[ChunkPixelIndex(x, y)]]
    ELSE [ok |-> FALSE, mat |-> NoMat]
\* set: writes the pixel where a chunk is loaded, Err and no write otherwise.
ChunkHandler_set(ch, x, y, mat) ==
    IF ChunkHandler_loaded(ch, x, y)
    THEN [ch EXCEPT ![pixel_to_chunk_pos(x, y)].pixels[ChunkPixelIndex(x, y)] = mat]
    ELSE ch
\* get_chunk_mut(..).set_color(..)
Chunk_set_color(ch, x, y, col) ==
    [ch EXCEPT ![pixel_to_chunk_pos(x, y)].colors[ChunkPixelIndex(x, y)] = col]

(***************************************************************************)
(* Physics and FSRigidBody.  A body of the physics world has translation,  *)
(* angle, linvel, angvel.  Floats that hold pixel coordinates are kept in  *)
(* half pixels (the integer 2*v stands for v); translation is kept as      *)
(* translation * PHYSICS_SCALE in half pixels.  Angles are quarter turns,  *)
(* for which sine and cosine are 0, 1 or -1.  An FSRigidBody has width,    *)
(* height, pixels (row-major, indices from 0), body (<<handle>> or <<>>)   *)
(* and image_dirty.                                                        *)
(***************************************************************************)
f32_from(n) == 2 * n
f32_as_i32(v) == div_trunc(v, 2)
sin(a) == CASE a % 4 = 1 -> 1 [] a % 4 = 3 -> -1 [] OTHER -> 0
cos(a) == CASE a % 4 = 0 -> 1 [] a % 4 = 2 -> -1 [] OTHER -> 0

\* FSRigidBody::get_body: the body of the handle, if there is one.
get_body(rb, phys) ==
    IF rb.body # <<>> /\ rb.body[1] \in DOMAIN phys.bodies
    THEN phys.bodies[rb.body[1]]
    ELSE None

\* What an index past the end of a pixel grid yields: the thread panics.
Panic == "panic"

(***************************************************************************)
(* SimulationHelperRigidBody.  w is the helper struct: chunk_handler,      *)
(* rigidbodies, physics, particles.                                        *)
(***************************************************************************)
\* The loop over the bodies in borrow_pixel_local, from body i on.
RECURSIVE RigidBody_borrow_from(_, _, _, _)
RigidBody_borrow_from(w, x, y, i) ==
    IF i > Len(w.rigidbodies)
    THEN air
    ELSE
      LET cur == w.rigidbodies[i]
          body == get_body(cur, w.physics)
      IN  IF body = None
          THEN RigidBody_borrow_from(w, x, y, i + 1)
          ELSE
            LET s == sin(-body.angle)
                c == cos(-body.angle)
                tx == f32_from(x) - body.translation[1]
                ty == f32_from(y) - body.translation[2]
                nt_x == f32_as_i32(tx * c - ty * s)
                nt_y == f32_as_i32(tx * s + ty * c)
                at == nt_x + nt_y * cur.width
            IN  IF nt_x >= 0 /\ nt_y >= 0 /\ nt_x < cur.width /\ nt_y < cur.width
                THEN IF at \notin DOMAIN cur.pixels
                     THEN Panic
                     ELSE IF cur.pixels[at] # air
                     THEN cur.pixels[at]
                     ELSE RigidBody_borrow_from(w, x, y, i + 1)
                ELSE RigidBody_borrow_from(w, x, y, i + 1)

\* Mutant: the bodies are looked at before the world chunk.
RigidBody_borrow_pixel_local_bodies_first(w, x, y) ==
    LET world_mat == ChunkHandler_get(w.chunk_handler, x, y)
        from_bodies == RigidBody_borrow_from(w, x, y, 1)
    IN  IF from_bodies # air
        THEN from_bodies
        ELSE IF world_mat.ok THEN world_mat.mat ELSE air

RigidBody_borrow_pixel_local(w, x, y) ==
    LET world_mat == ChunkHandler_get(w.chunk_handler, x, y)
    IN  IF world_mat.ok /\ world_mat.mat # air
        THEN world_mat.mat
        ELSE RigidBody_borrow_from(w, x, y, 1)

\* get_pixel_local is borrow_pixel_local with a clone of what it finds.
RigidBody_get_pixel_local(w, x, y) == RigidBody_borrow_pixel_local(w, x, y)

\* get_color_local: the color of the world chunk where a chunk is loaded and
\* the color is not transparent, else the color of the pixel the loop over
\* the bodies finds (the same loop as in borrow_pixel_local), else
\* transparent, which is the color of air here.
RigidBody_get_color_local(w, x, y) ==
    IF /\ ChunkHandler_loaded(w.chunk_handler, x, y)
       /\ w.chunk_handler[pixel_to_chunk_pos(x, y)].colors[ChunkPixelIndex(x, y)] # color(air)
    THEN w.chunk_handler[pixel_to_chunk_pos(x, y)].colors[ChunkPixelIndex(x, y)]
    ELSE LET px == RigidBody_borrow_from(w, x, y, 1)
         IN  IF px = Panic THEN Panic ELSE color(px)

\* Mutant: the write is dropped.
RigidBody_set_pixel_local_dropped(w, x, y, mat) == w

RigidBody_set_pixel_local(w, x, y, mat) ==
    [w EXCEPT !.chunk_handler = ChunkHandler_set(@, x, y, mat)]

RigidBody_set_color_local(w, x, y, col) ==
    IF ChunkHandler_loaded(w.chunk_handler, x, y)
    THEN [w EXCEPT !.chunk_handler = Chunk_set_color(@, x, y, col)]
    ELSE w

RigidBody_set_light_local(w, x, y, lgt) == w

\* Particle::new(material, pos, vel); the velocity is left out.
RigidBody_add_particle(w, material, pos) ==
    [w EXCEPT !.particles = Append(@, [material |-> material, pos |-> pos])]

(***************************************************************************)
(* trait SimulationHelper: simulate_pixel calls these on either helper.    *)
(***************************************************************************)
IsRigidBodyHelper(h) == "rigidbodies" \in DOMAIN h
borrow_pixel_local(h, x, y) ==
    IF IsRigidBodyHelper(h) THEN RigidBody_borrow_pixel_local(h, x, y)
    ELSE Chunk_borrow_pixel_local(h, x, y)
set_pixel_local(h, x, y, mat) ==
    IF IsRigidBodyHelper(h) THEN RigidBody_set_pixel_local(h, x, y, mat)
    ELSE Chunk_set_pixel_local(h, x, y, mat)
set_color_local(h, x, y, col) ==
    IF IsRigidBodyHelper(h) THEN RigidBody_set_color_local(h, x, y, col)
    ELSE Chunk_set_color_local(h, x, y, col)
set_light_local(h, x, y, lgt) ==
    IF IsRigidBodyHelper(h) THEN RigidBody_set_light_local(h, x, y, lgt)
    ELSE Chunk_set_light_local(h, x, y, lgt)
add_particle(h, material, pos) ==
    IF IsRigidBodyHelper(h) THEN RigidBody_add_particle(h, material, pos)
    ELSE Chunk_add_particle(h, material, pos)

(***************************************************************************)
(* The draws of one simulate_pixel call.  A call draws at most two floats  *)
(* and one bool; the bool is drawn at one of four places, of which only    *)
(* the choice between the two open diagonals is a left/right choice.       *)
(*   gt_0_1    rng.f32() > 0.1   (fall although a diagonal is open)        *)
(*   gt_0_5    rng.f32() > 0.5   (spread although covered)                 *)
(*   coin      rng.bool()        (two-row fall; slope hop)                 *)
(*   side_coin rng.bool()        (which diagonal when both are open)       *)
(* A pixel that is not Sand draws nothing.                                 *)
(***************************************************************************)
Rng == [gt_0_1 : BOOLEAN, gt_0_5 : BOOLEAN, coin : BOOLEAN, side_coin : BOOLEAN]
NoDraw == [gt_0_1 |-> FALSE, gt_0_5 |-> FALSE, coin |-> FALSE, side_coin |-> FALSE]
DrawsFor(cur) == IF physics(cur) = "Sand" THEN Rng ELSE {NoDraw}

\* Mutant: the spread is attempted whatever is above and whatever the float.
simulate_pixel_spreads_always(x, y, cur, h, rng) ==
    LET is_air(px, py) == physics(borrow_pixel_local(h, px, py)) = "Air"
        place(tx, ty) ==
            [new_mat |-> air,
             helper |-> set_pixel_local(
                          set_light_local(
                            set_color_local(h, tx, ty, color(cur)),
                            tx, ty, light(cur)),
                          tx, ty, cur)]
        stay == [new_mat |-> NoMat, helper |-> h]
    IN  IF physics(cur) = "Sand"
        THEN
          LET below_can == is_air(x, y + 1)
              bl_can == is_air(x - 1, y + 1)
              br_can == is_air(x + 1, y + 1)
          IN  IF below_can /\ (~(br_can \/ bl_can) \/ rng.gt_0_1)
              THEN
                LET empty_below == \A i \in 0..3 : is_air(x, y + i + 2)
                IN  IF empty_below
                    THEN [new_mat |-> air, helper |-> add_particle(h, cur, <<x, y>>)]
                    ELSE IF rng.coin /\ is_air(x, y + 2)
                    THEN place(x, y + 2)
                    ELSE place(x, y + 1)
              ELSE
                LET above_air == is_air(x, y - 1)
                IN  IF above_air \/ rng.gt_0_5 \/ TRUE
                    THEN
                      IF bl_can /\ br_can
                      THEN IF rng.side_coin
                           THEN place(x + 1, y + 1)
                           ELSE place(x - 1, y + 1)
                      ELSE IF bl_can
                      THEN IF rng.coin /\ is_air(x - 2, y + 1) /\ ~is_air(x - 2, y + 2)
                           THEN place(x - 2, y + 1)
                           ELSE place(x - 1, y + 1)
                      ELSE IF br_can
                      THEN IF rng.coin /\ is_air(x + 2, y + 1) /\ ~is_air(x + 2, y + 2)
                           THEN place(x + 2, y + 1)
                           ELSE place(x + 1, y + 1)
                      ELSE stay
                    ELSE stay
        ELSE stay

\* Mutant: the hop to the left does not look under the cell it hops to.
simulate_pixel_hops_unsupported(x, y, cur, h, rng) ==
    LET is_air(px, py) == physics(borrow_pixel_local(h, px, py)) = "Air"
        place(tx, ty) ==
            [new_mat |-> air,
             helper |-> set_pixel_local(
                          set_light_local(
                            set_color_local(h, tx, ty, color(cur)),
                            tx, ty, light(cur)),
                          tx, ty, cur)]
        stay == [new_mat |-> NoMat, helper |-> h]
    IN  IF physics(cur) = "Sand"
        THEN
          LET below_can == is_air(x, y + 1)
              bl_can == is_air(x - 1, y + 1)
              br_can == is_air(x + 1, y + 1)
          IN  IF below_can /\ (~(br_can \/ bl_can) \/ rng.gt_0_1)
              THEN
                LET empty_below == \A i \in 0..3 : is_air(x, y + i + 2)
                IN  IF empty_below
                    THEN [new_mat |-> air, helper |-> add_particle(h, cur, <<x, y>>)]
                    ELSE IF rng.coin /\ is_air(x, y + 2)
                    THEN place(x, y + 2)
                    ELSE place(x, y + 1)
              ELSE
                LET above_air == is_air(x, y - 1)
                IN  IF above_air \/ rng.gt_0_5
                    THEN
                      IF bl_can /\ br_can
                      THEN IF rng.side_coin
                           THEN place(x + 1, y + 1)
                           ELSE place(x - 1, y + 1)
                      ELSE IF bl_can
                      THEN IF rng.coin /\ is_air(x - 2, y + 1)
                           THEN place(x - 2, y + 1)
                           ELSE place(x - 1, y + 1)
                      ELSE IF br_can
                      THEN IF rng.coin /\ is_air(x + 2, y + 1) /\ ~is_air(x + 2, y + 2)
                           THEN place(x + 2, y + 1)
                           ELSE place(x + 1, y + 1)
                      ELSE stay
                    ELSE stay
        ELSE stay

\* Mutant: every pixel that is not Air follows the rule of Sand.
simulate_pixel_moves_solid(x, y, cur, h, rng) ==
    LET is_air(px, py) == physics(borrow_pixel_local(h, px, py)) = "Air"
        place(tx, ty) ==
            [new_mat |-> air,
             helper |-> set_pixel_local(
                          set_light_local(
                            set_color_local(h, tx, ty, color(cur)),
                            tx, ty, light(cur)),
                          tx, ty, cur)]
        stay == [new_mat |-> NoMat, helper |-> h]
    IN  IF physics(cur) # "Air"
        THEN
          LET below_can == is_air(x, y + 1)
              bl_can == is_air(x - 1, y + 1)
              br_can == is_air(x + 1, y + 1)
          IN  IF below_can /\ (~(br_can \/ bl_can) \/ rng.gt_0_1)
              THEN
                LET empty_below == \A i \in 0..3 : is_air(x, y + i + 2)
                IN  IF empty_below
                    THEN [new_mat |-> air, helper |-> add_particle(h, cur, <<x, y>>)]
                    ELSE IF rng.coin /\ is_air(x, y + 2)
                    THEN place(x, y + 2)
                    ELSE place(x, y + 1)
              ELSE
                LET above_air == is_air(x, y - 1)
                IN  IF above_air \/ rng.gt_0_5
                    THEN
                      IF bl_can /\ br_can
                      THEN IF rng.side_coin
                           THEN place(x + 1, y + 1)
                           ELSE place(x - 1, y + 1)
                      ELSE IF bl_can
                      THEN IF rng.coin /\ is_air(x - 2, y + 1) /\ ~is_air(x - 2, y + 2)
                           THEN place(x - 2, y + 1)
                           ELSE place(x - 1, y + 1)
                      ELSE IF br_can
                      THEN IF rng.coin /\ is_air(x + 2, y + 1) /\ ~is_air(x + 2, y + 2)
                           THEN place(x + 2, y + 1)
                           ELSE place(x + 1, y + 1)
                      ELSE stay
                    ELSE stay
        ELSE stay

\* Mutant: the two-row fall does not look at the cell it falls to.
simulate_pixel_falls_two_unchecked(x, y, cur, h, rng) ==
    LET is_air(px, py) == physics(borrow_pixel_local(h, px, py)) = "Air"
        place(tx, ty) ==
            [new_mat |-> air,
             helper |-> set_pixel_local(
                          set_light_local(
                            set_color_local(h, tx, ty, color(cur)),
                            tx, ty, light(cur)),
                          tx, ty, cur)]
        stay == [new_mat |-> NoMat, helper |-> h]
    IN  IF physics(cur) = "Sand"
        THEN
          LET below_can == is_air(x, y + 1)
              bl_can == is_air(x - 1, y + 1)
              br_can == is_air(x + 1, y + 1)
          IN  IF below_can /\ (~(br_can \/ bl_can) \/ rng.gt_0_1)
              THEN
                LET empty_below == \A i \in 0..3 : is_air(x, y + i + 2)
                IN  IF empty_below
                    THEN [new_mat |-> air, helper |-> add_particle(h, cur, <<x, y>>)]
                    ELSE IF rng.coin
                    THEN place(x, y + 2)
                    ELSE place(x, y + 1)
              ELSE
                LET above_air == is_air(x, y - 1)
                IN  IF above_air \/ rng.gt_0_5
                    THEN
                      IF bl_can /\ br_can
                      THEN IF rng.side_coin
                           THEN place(x + 1, y + 1)
                           ELSE place(x - 1, y + 1)
                      ELSE IF bl_can
                      THEN IF rng.coin /\ is_air(x - 2, y + 1) /\ ~is_air(x - 2, y + 2)
                           THEN place(x - 2, y + 1)
                           ELSE place(x - 1, y + 1)
                      ELSE IF br_can
                      THEN IF rng.coin /\ is_air(x + 2, y + 1) /\ ~is_air(x + 2, y + 2)
                           THEN place(x + 2, y + 1)
                           ELSE place(x + 1, y + 1)
                      ELSE stay
                    ELSE stay
        ELSE stay

\* Mutant: with neither diagonal open the pixel still goes down and right.
simulate_pixel_spreads_on_material(x, y, cur, h, rng) ==
    LET is_air(px, py) == physics(borrow_pixel_local(h, px, py)) = "Air"
        place(tx, ty) ==
            [new_mat |-> air,
             helper |-> set_pixel_local(
                          set_light_local(
                            set_color_local(h, tx, ty, color(cur)),
                            tx, ty, light(cur)),
                          tx, ty, cur)]
        stay == [new_mat |-> NoMat, helper |-> h]
    IN  IF physics(cur) = "Sand"
        THEN
          LET below_can == is_air(x, y + 1)
              bl_can == is_air(x - 1, y + 1)
              br_can == is_air(x + 1, y + 1)
          IN  IF below_can /\ (~(br_can \/ bl_can) \/ rng.gt_0_1)
              THEN
                LET empty_below == \A i \in 0..3 : is_air(x, y + i + 2)
                IN  IF empty_below
                    THEN [new_mat |-> air, helper |-> add_particle(h, cur, <<x, y>>)]
                    ELSE IF rng.coin /\ is_air(x, y + 2)
                    THEN place(x, y + 2)
                    ELSE place(x, y + 1)
              ELSE
                LET above_air == is_air(x, y - 1)
                IN  IF above_air \/ rng.gt_0_5
                    THEN
                      IF bl_can /\ br_can
                      THEN IF rng.side_coin
                           THEN place(x + 1, y + 1)
                           ELSE place(x - 1, y + 1)
                      ELSE IF bl_can
                      THEN IF rng.coin /\ is_air(x - 2, y + 1) /\ ~is_air(x - 2, y + 2)
                           THEN place(x - 2, y + 1)
                           ELSE place(x - 1, y + 1)
                      ELSE IF br_can
                      THEN IF rng.coin /\ is_air(x + 2, y + 1) /\ ~is_air(x + 2, y + 2)
                           THEN place(x + 2, y + 1)
                           ELSE place(x + 1, y + 1)
                      ELSE place(x + 1, y + 1)
                    ELSE stay
        ELSE stay

\* Mutant: a pixel that moves to a cell leaves stone behind, not air.
simulate_pixel_leaves_stone(x, y, cur, h, rng) ==
    LET is_air(px, py) == physics(borrow_pixel_local(h, px, py)) = "Air"
        place(tx, ty) ==
            [new_mat |-> stone,
             helper |-> set_pixel_local(
                          set_light_local(
                            set_color_local(h, tx, ty, color(cur)),
                            tx, ty, light(cur)),
                          tx, ty, cur)]
        stay == [new_mat |-> NoMat, helper |-> h]
    IN  IF physics(cur) = "Sand"
        THEN
          LET below_can == is_air(x, y + 1)
              bl_can == is_air(x - 1, y + 1)
              br_can == is_air(x + 1, y + 1)
          IN  IF below_can /\ (~(br_can \/ bl_can) \/ rng.gt_0_1)
              THEN
                LET empty_below == \A i \in 0..3 : is_air(x, y + i + 2)
                IN  IF empty_below
                    THEN [new_mat |-> air, helper |-> add_particle(h, cur, <<x, y>>)]
                    ELSE IF rng.coin /\ is_air(x, y + 2)
                    THEN place(x, y + 2)
                    ELSE place(x, y + 1)
              ELSE
                LET above_air == is_air(x, y - 1)
                IN  IF above_air \/ rng.gt_0_5
                    THEN
                      IF bl_can /\ br_can
                      THEN IF rng.side_coin
                           THEN place(x + 1, y + 1)
                           ELSE place(x - 1, y + 1)
                      ELSE IF bl_can
                      THEN IF rng.coin /\ is_air(x - 2, y + 1) /\ ~is_air(x - 2, y + 2)
                           THEN place(x - 2, y + 1)
                           ELSE place(x - 1, y + 1)
                      ELSE IF br_can
                      THEN IF rng.coin /\ is_air(x + 2, y + 1) /\ ~is_air(x + 2, y + 2)
                           THEN place(x + 2, y + 1)
                           ELSE place(x + 1, y + 1)
                      ELSE stay
                    ELSE stay
        ELSE stay

\* Simulator::simulate_pixel: the replacement of the source cell (or None)
\* and the helper after the writes of the rule.
simulate_pixel(x, y, cur, h, rng) ==
    LET is_air(px, py) == physics(borrow_pixel_local(h, px, py)) = "Air"
        place(tx, ty) ==
            [new_mat |-> air,
             helper |-> set_pixel_local(
                          set_light_local(
                            set_color_local(h, tx, ty, color(cur)),
                            tx, ty, light(cur)),
                          tx, ty, cur)]
        stay == [new_mat |-> NoMat, helper |-> h]
    IN  IF physics(cur) = "Sand"
        THEN
          LET below_can == is_air(x, y + 1)
              bl_can == is_air(x - 1, y + 1)
              br_can == is_air(x + 1, y + 1)
          IN  IF below_can /\ (~(br_can \/ bl_can) \/ rng.gt_0_1)
              THEN
                LET empty_below == \A i \in 0..3 : is_air(x, y + i + 2)
                IN  IF empty_below
                    THEN [new_mat |-> air, helper |-> add_particle(h, cur, <<x, y>>)]
                    ELSE IF rng.coin /\ is_air(x, y + 2)
                    THEN place(x, y + 2)
                    ELSE place(x, y + 1)
              ELSE
                LET above_air == is_air(x, y - 1)
                IN  IF above_air \/ rng.gt_0_5
                    THEN
                      IF bl_can /\ br_can
                      THEN IF rng.side_coin
                           THEN place(x + 1, y + 1)
                           ELSE place(x - 1, y + 1)
                      ELSE IF bl_can
                      THEN IF rng.coin /\ is_air(x - 2, y + 1) /\ ~is_air(x - 2, y + 2)
                           THEN place(x - 2, y + 1)
                           ELSE place(x - 1, y + 1)
                      ELSE IF br_can
                      THEN IF rng.coin /\ is_air(x + 2, y + 1) /\ ~is_air(x + 2, y + 2)
                           THEN place(x + 2, y + 1)
                           ELSE place(x + 1, y + 1)
                      ELSE stay
                    ELSE stay
        ELSE stay

\* Mutant: the look below the pixel goes one cell further.
simulate_pixel_reads_five_below(x, y, cur, h, rng) ==
    LET is_air(px, py) == physics(borrow_pixel_local(h, px, py)) = "Air"
        below_can == is_air(x, y + 1)
        bl_can == is_air(x - 1, y + 1)
        br_can == is_air(x + 1, y + 1)
        hop(dx) == IF rng.coin
                   THEN {<<x + dx, y + 1>>}
                          \cup (IF is_air(x + dx, y + 1) THEN {<<x + dx, y + 2>>} ELSE {})
                   ELSE {}
    IN  IF physics(cur) = "Sand"
        THEN {<<x, y + 1>>, <<x - 1, y + 1>>, <<x + 1, y + 1>>}
             \cup (IF below_can /\ (~(br_can \/ bl_can) \/ rng.gt_0_1)
                   THEN { <<x, y + i + 2>> : i \in { k \in 0..4 :
                                                      \A j \in 0..(k - 1) : is_air(x, y + j + 2) } }
                   ELSE {<<x, y - 1>>}
                        \cup (IF is_air(x, y - 1) \/ rng.gt_0_5
                              THEN IF bl_can /\ br_can THEN {}
                                   ELSE IF bl_can THEN hop(-2)
                                   ELSE IF br_can THEN hop(2)
                                   ELSE {}
                              ELSE {}))
        ELSE {}

\* The coordinates a simulate_pixel call passes to borrow_pixel_local, as far
\* as each && and all() gets.
simulate_pixel_reads(x, y, cur, h, rng) ==
    LET is_air(px, py) == physics(borrow_pixel_local(h, px, py)) = "Air"
        below_can == is_air(x, y + 1)
        bl_can == is_air(x - 1, y + 1)
        br_can == is_air(x + 1, y + 1)
        hop(dx) == IF rng.coin
                   THEN {<<x + dx, y + 1>>}
                          \cup (IF is_air(x + dx, y + 1) THEN {<<x + dx, y + 2>>} ELSE {})
                   ELSE {}
    IN  IF physics(cur) = "Sand"
        THEN {<<x, y + 1>>, <<x - 1, y + 1>>, <<x + 1, y + 1>>}
             \cup (IF below_can /\ (~(br_can \/ bl_can) \/ rng.gt_0_1)
                   THEN { <<x, y + i + 2>> : i \in { k \in 0..3 :
                                                      \A j \in 0..(k - 1) : is_air(x, y + j + 2) } }
                   ELSE {<<x, y - 1>>}
                        \cup (IF is_air(x, y - 1) \/ rng.gt_0_5
                              THEN IF bl_can /\ br_can THEN {}
                                   ELSE IF bl_can THEN hop(-2)
                                   ELSE IF br_can THEN hop(2)
                                   ELSE {}
                              ELSE {}))
        ELSE {}

\* Whether a read of simulate_pixel indexes past the end of a pixel grid,
\* following the reads in the order the rule makes them: below, the two
\* diagonals, then the cells of the branch taken, as far as each && and
\* all() gets.
simulate_pixel_panics(x, y, cur, h, rng) ==
    LET bad(px, py) == borrow_pixel_local(h, px, py) = Panic
        is_air(px, py) == physics(borrow_pixel_local(h, px, py)) = "Air"
        below_can == is_air(x, y + 1)
        bl_can == is_air(x - 1, y + 1)
        br_can == is_air(x + 1, y + 1)
        hop_bad(dx) == rng.coin /\ (\/ bad(x + dx, y + 1)
                                    \/ is_air(x + dx, y + 1) /\ bad(x + dx, y + 2))
    IN  /\ physics(cur) = "Sand"
        /\ \/ bad(x, y + 1) \/ bad(x - 1, y + 1) \/ bad(x + 1, y + 1)
           \/ IF below_can /\ (~(br_can \/ bl_can) \/ rng.gt_0_1)
              THEN \E i \in 0..3 : /\ bad(x, y + i + 2)
                                   /\ \A j \in 0..(i - 1) : is_air(x, y + j + 2)
              ELSE \/ bad(x, y - 1)
                   \/ /\ is_air(x, y - 1) \/ rng.gt_0_5
                      /\ ~(bl_can /\ br_can)
                      /\ \/ bl_can /\ hop_bad(-2)
                         \/ ~bl_can /\ br_can /\ hop_bad(2)

\* Mutant: the source cell gets the new color and light but keeps its material.
process_keeps_source(x, y, h, rng) ==
    LET cur == get_pixel_local_unchecked(h, x, y)
        res == simulate_pixel(x, y, cur, h, rng)
        mat == res.new_mat
    IN  IF mat # NoMat
        THEN set_light_local_unchecked(
               set_color_local_unchecked(res.helper, x, y, color(mat)),
               x, y, light(mat))
        ELSE res.helper

\* The second half of process: the source cell takes the material
\* simulate_pixel returned, if it returned one.
process_result(x, y, res) ==
    IF res.new_mat # NoMat
    THEN set_pixel_local_unchecked(
           set_light_local_unchecked(
             set_color_local_unchecked(res.helper, x, y, color(res.new_mat)),
             x, y, light(res.new_mat)),
           x, y, res.new_mat)
    ELSE res.helper

\* simulate_chunk's inner fn process(x, y, helper, rng, registries).  The
\* result of simulate_pixel is bound as an element of a set, so that it is
\* computed once also where ENABLED is evaluated.
process(x, y, h, rng) ==
    CHOOSE h2 \in
        { process_result(x, y, res) :
            res \in { simulate_pixel(x, y, get_pixel_local_unchecked(h, x, y), h, rng) } } : TRUE

(***************************************************************************)
(* Simulator::simulate_chunk.  A run is the state of one call site: the    *)
(* nine contexts, the particle list, the helper, the loop position.        *)
(***************************************************************************)
HelperOf(run) ==
    [chunk_data |-> run.chunk_data, particles |-> run.particles,
     min_x |-> run.helper.min_x, min_y |-> run.helper.min_y,
     max_x |-> run.helper.max_x, max_y |-> run.helper.max_y,
     written |-> run.helper.written,
     chunk_x |-> run.origin[1], chunk_y |-> run.origin[2]]

\* The helper built at the top of simulate_chunk: empty trackers.
NewTrackers(last_call) ==
    [min_x |-> [i \in 0..8 |-> CHUNK_SIZE + 1],
     min_y |-> [i \in 0..8 |-> CHUNK_SIZE + 1],
     max_x |-> [i \in 0..8 |-> 0],
     max_y |-> [i \in 0..8 |-> 0],
     written |-> {},
     last_call |-> last_call]

\* Mutant: every row starts at the left column, whatever the coin says.
FirstX_always_left(rect, lr) == rect.x1

\* First and last column of a row in the direction the coin chose.
FirstX(rect, lr) == IF lr THEN rect.x1 ELSE rect.x2
LastX(rect, lr) == IF lr THEN rect.x2 ELSE rect.x1

\* Mutant: the idle call returns without clearing the nine rectangles.
simulate_chunk_enter_keeps_rects(run, scan_lr) ==
    LET my_dirty_rect_o == run.chunk_data[CENTER_CHUNK].dirty_rect
    IN  IF my_dirty_rect_o = None
        THEN [run EXCEPT !.helper = [@ EXCEPT !.written = {}, !.last_call = "skipped"]]
        ELSE [run EXCEPT
                !.helper = NewTrackers("scanned"),
                !.loop = [rect |-> my_dirty_rect_o, lr |-> scan_lr,
                          x |-> FirstX(my_dirty_rect_o, scan_lr),
                          y |-> my_dirty_rect_o.y2],
                !.pc = "scan"]

\* Mutant: the rows are scanned left to right whatever the coin says.
simulate_chunk_enter_scans_lr(run, scan_lr) ==
    LET my_dirty_rect_o == run.chunk_data[CENTER_CHUNK].dirty_rect
    IN  IF my_dirty_rect_o = None
        THEN [run EXCEPT
                !.chunk_data = [i \in 0..8 |-> [run.chunk_data[i] EXCEPT !.dirty_rect = None]],
                !.helper = [@ EXCEPT !.written = {}, !.last_call = "skipped"]]
        ELSE [run EXCEPT
                !.helper = NewTrackers("scanned"),
                !.loop = [rect |-> my_dirty_rect_o, lr |-> TRUE,
                          x |-> FirstX(my_dirty_rect_o, TRUE),
                          y |-> my_dirty_rect_o.y2],
                !.pc = "scan"]

\* From the call to the first iteration of the loop; scan_lr is rng.bool().
\* With no center dirty rectangle the call clears the nine rectangles and
\* returns.
simulate_chunk_enter(run, scan_lr) ==
    LET my_dirty_rect_o == run.chunk_data[CENTER_CHUNK].dirty_rect
    IN  IF my_dirty_rect_o = None
        THEN [run EXCEPT
                !.chunk_data = [i \in 0..8 |-> [run.chunk_data[i] EXCEPT !.dirty_rect = None]],
                !.helper = [@ EXCEPT !.written = {}, !.last_call = "skipped"]]
        ELSE [run EXCEPT
                !.helper = NewTrackers("scanned"),
                !.loop = [rect |-> my_dirty_rect_o, lr |-> scan_lr,
                          x |-> FirstX(my_dirty_rect_o, scan_lr),
                          y |-> my_dirty_rect_o.y2],
                !.pc = "scan"]

\* The loop after process(x, y) has left the helper as h2: the next
\* position, or after the last one finish_dirty_rects and the return.
simulate_chunk_advance(run, h2) ==
    LET l == run.loop
        row_done == l.x = LastX(l.rect, l.lr)
        h3 == finish_dirty_rects(h2)
        trackers(h) == [min_x |-> h.min_x, min_y |-> h.min_y, max_x |-> h.max_x,
                        max_y |-> h.max_y, written |-> h.written,
                        last_call |-> run.helper.last_call]
    IN  IF row_done /\ l.y = l.rect.y1
        THEN [run EXCEPT !.chunk_data = h3.chunk_data, !.particles = h3.particles,
                         !.helper = trackers(h3), !.loop = None, !.pc = "idle"]
        ELSE [run EXCEPT !.chunk_data = h2.chunk_data, !.particles = h2.particles,
                         !.helper = trackers(h2),
                         !.loop = IF row_done
                                  THEN [l EXCEPT !.x = FirstX(l.rect, l.lr), !.y = l.y - 1]
                                  ELSE [l EXCEPT !.x = IF l.lr THEN l.x + 1 ELSE l.x - 1]]

\* One iteration: process(x, y), then the rest of the loop.  The helper
\* process returns is bound as an element of a set, so that it is computed
\* once also where ENABLED is evaluated.
simulate_chunk_iter(run, rng) ==
    CHOOSE next \in
        { simulate_chunk_advance(run, h2) :
            h2 \in { process(run.loop.x, run.loop.y, HelperOf(run), rng) } } : TRUE

\* The loop from its k-th iteration to the return, on the draws given.
RECURSIVE simulate_chunk_loop(_, _, _)
simulate_chunk_loop(run, draws, k) ==
    IF run.pc = "idle"
    THEN run
    ELSE simulate_chunk_loop(simulate_chunk_iter(run, draws[k]), draws, k + 1)

\* One whole call: scan_lr is the coin of the call, draws the draws of the
\* cells in the order they are processed.
simulate_chunk(run, scan_lr, draws) ==
    simulate_chunk_loop(simulate_chunk_enter(run, scan_lr), draws, 1)

ThisRun ==
    [chunk_data |-> chunk_data, particles |-> particles, helper |-> helper,
     loop |-> loop, pc |-> pc, origin |-> origin]

Becomes(run) ==
    /\ chunk_data' = run.chunk_data
    /\ particles' = run.particles
    /\ helper' = run.helper
    /\ loop' = run.loop
    /\ pc' = run.pc
    /\ origin' = run.origin

(***************************************************************************)
(* Initial configurations: air everywhere, a terrain of stone under a 3x3  *)
(* window that straddles two chunk borders, and up to MaxPlaced sand or    *)
(* stone pixels in the window.  Coordinates are local to the center chunk, *)
(* from -CHUNK_SIZE to 2*CHUNK_SIZE - 1.  The window at the south-west     *)
(* corner reaches the west, south and south-west chunks, the one at the    *)
(* north-east corner the north and east chunks.                            *)
(***************************************************************************)
Local == (-CHUNK_SIZE) .. (2 * CHUNK_SIZE - 1)
Anchors == { [x |-> -1, y |-> CHUNK_SIZE - 2, dir |-> 1],
             [x |-> CHUNK_SIZE - 2, y |-> -1, dir |-> -1] }
Window(a) == { <<a.x + dx, a.y + dy>> : dx \in 0..2, dy \in 0..2 }
WindowRect(a) ==
    LET x1 == Max(0, a.x)
        y1 == Max(0, a.y)
        x2 == Min(CHUNK_SIZE - 1, a.x + 2)
        y2 == Min(CHUNK_SIZE - 1, a.y + 2)
    IN  Rect_new_wh(x1, y1, x2 - x1 + 1, y2 - y1 + 1)
FullRect == Rect_new_wh(0, 0, CHUNK_SIZE, CHUNK_SIZE)

\* "open": no stone; "floor": a stone row under the window; "ledge": the
\* floor and, on it, a stone step that ends inside the window.
Terrains == {"open", "floor", "ledge"}
Terrain(a, t, x, y) ==
    \/ t \in {"floor", "ledge"} /\ y = a.y + 3
    \/ t = "ledge" /\ y = a.y + 2 /\ (x - (a.x + 1)) * a.dir >= 0

\* The local coordinate of pixel px of chunk i.
LocalX(i, px) == ((i % 3) - 1) * CHUNK_SIZE + (px % CHUNK_SIZE)
LocalY(i, px) == ((i \div 3) - 1) * CHUNK_SIZE + (px \div CHUNK_SIZE)

\* The nine contexts that hold the pixels of world (a material for each
\* local coordinate), colors that match, no light, nothing dirty.
Contexts(world, center_rect) ==
    [i \in 0..8 |->
        LET pix == [px \in 0 .. (CHUNK_SIZE * CHUNK_SIZE - 1) |->
                        world[<<LocalX(i, px), LocalY(i, px)>>]]
        IN  [pixels |-> pix,
             colors |-> [px \in DOMAIN pix |-> color(pix[px])],
             lights |-> [px \in DOMAIN pix |-> 0],
             dirty |-> FALSE,
             dirty_rect |-> IF i = CENTER_CHUNK THEN center_rect ELSE FullRect]]

InitChunks ==
    \E a \in Anchors :
    \E cells \in SUBSET Window(a) :
        /\ Cardinality(cells) <= MaxPlaced
        /\ \E mats \in [cells -> {sand, stone}] :
           \E t \in Terrains :
           \E has_rect \in BOOLEAN :
              LET world == [c \in Local \X Local |->
                              IF c \in cells THEN mats[c]
                              ELSE IF Terrain(a, t, c[1], c[2]) THEN stone ELSE air]
              IN  chunk_data = Contexts(world, IF has_rect THEN WindowRect(a) ELSE None)

\* All air, nothing dirty.
StillChunks == Contexts([c \in Local \X Local |-> air], None)

\* No call of simulate_chunk: the rigid-body step does not look at its
\* contexts.
InitNoRun ==
    /\ chunk_data = <<>>
    /\ particles = <<>>
    /\ helper = None
    /\ loop = None
    /\ pc = "idle"
    /\ origin = <<0, 0>>

\* No rigid body, no world chunk: the chunk step does not look at them.
InitNoBodies ==
    /\ chunk_handler = <<>>
    /\ rigidbodies = <<>>
    /\ physics_world = [bodies |-> <<>>, next |-> 1]
    /\ step = None

InitRun ==
    /\ particles = <<>>
    /\ helper = NewTrackers("never")
    /\ loop = None
    /\ pc = "idle"
    /\ origin = <<-1, 2>>

Init ==
    /\ InitChunks
    /\ InitRun
    /\ mirror = None
    /\ probe = None
    /\ scene = None
    /\ InitNoBodies

\* simulate_chunk called on a center chunk with no dirty rectangle.
SimulateChunkIdle ==
    /\ pc = "idle"
    /\ chunk_data[CENTER_CHUNK].dirty_rect = None
    /\ \E scan_lr \in BOOLEAN :
       \E next \in {simulate_chunk_enter(ThisRun, scan_lr)} : Becomes(next)

\* simulate_chunk called on a center chunk with a dirty rectangle.
SimulateChunkEnter ==
    /\ pc = "idle"
    /\ chunk_data[CENTER_CHUNK].dirty_rect # None
    /\ \E scan_lr \in BOOLEAN :
       \E next \in {simulate_chunk_enter(ThisRun, scan_lr)} : Becomes(next)

\* The next cell of the scan (and the end of the call after the last cell).
SimulateChunkProcess ==
    /\ pc = "scan"
    /\ \E rng \in DrawsFor(get_pixel_local_unchecked(HelperOf(ThisRun), loop.x, loop.y)) :
       \E next \in {simulate_chunk_iter(ThisRun, rng)} : Becomes(next)

Next ==
    \/ SimulateChunkIdle /\ UNCHANGED <<mirror, probe, scene>> /\ UNCHANGED body_vars
    \/ SimulateChunkEnter /\ UNCHANGED <<mirror, probe, scene>> /\ UNCHANGED body_vars
    \/ SimulateChunkProcess /\ UNCHANGED <<mirror, probe, scene>> /\ UNCHANGED body_vars

Spec == Init /\ [][Next]_vars

(***************************************************************************)
(* Settling: a column of n sand pixels over m rows of open air in the      *)
(* center chunk, over a stone floor or over the open south chunk; the      *)
(* whole center chunk is dirty.  simulate_chunk is called again and again, *)
(* each call on the rectangles the previous one left.                      *)
(***************************************************************************)
ColumnTop(n, m) == CHUNK_SIZE - n - m

InitSettle ==
    /\ \E n \in 1..MaxColumn, m \in 0..MaxShaft, x \in {0, 2}, has_floor \in BOOLEAN :
          LET top == ColumnTop(n, m)
              world == [c \in Local \X Local |->
                          IF c[1] = x /\ top <= c[2] /\ c[2] < top + n THEN sand
                          ELSE IF has_floor /\ c[2] = CHUNK_SIZE THEN stone ELSE air]
          IN  /\ chunk_data = Contexts(world, FullRect)
              /\ scene = [n |-> n, m |-> m, x |-> x, has_floor |-> has_floor]
    /\ InitRun
    /\ mirror = None
    /\ probe = None
    /\ InitNoBodies

\* The caller keeps calling, and a call that has started runs on.
SpecSettle == InitSettle /\ [][Next]_vars /\ WF_vars(Next)

(***************************************************************************)
(* Two call sites in lockstep: the nine contexts of the variables, and in  *)
(* mirror their reflection about the vertical axis of the center chunk     *)
(* (west and east chunks swapped, the chunk coordinate negated).  Both run *)
(* simulate_chunk; the reflected one draws the opposite scan direction and *)
(* the opposite side where both diagonals are open, the same floats and    *)
(* the same other coins.                                                   *)
(***************************************************************************)
ReflectX(x) == CHUNK_SIZE - 1 - x
ReflectChunkIndex(i) == (2 - (i % 3)) + 3 * (i \div 3)
ReflectPixelIndex(px) == ReflectX(px % CHUNK_SIZE) + CHUNK_SIZE * (px \div CHUNK_SIZE)
ReflectRect(r) ==
    IF r = None THEN None
    ELSE [x1 |-> ReflectX(r.x2), y1 |-> r.y1, x2 |-> ReflectX(r.x1), y2 |-> r.y2]
ReflectContext(c) ==
    [pixels |-> [px \in DOMAIN c.pixels |-> c.pixels[ReflectPixelIndex(px)]],
     colors |-> [px \in DOMAIN c.colors |-> c.colors[ReflectPixelIndex(px)]],
     lights |-> [px \in DOMAIN c.lights |-> c.lights[ReflectPixelIndex(px)]],
     dirty |-> c.dirty,
     dirty_rect |-> ReflectRect(c.dirty_rect)]
\* A chunk no write touched keeps the initial trackers on both sides.
ReflectTrackers(t) ==
    LET touched(i) == t.min_x[i] # CHUNK_SIZE + 1
    IN  [min_x |-> [i \in 0..8 |-> IF touched(ReflectChunkIndex(i))
                                   THEN ReflectX(t.max_x[ReflectChunkIndex(i)])
                                   ELSE CHUNK_SIZE + 1],
         min_y |-> [i \in 0..8 |-> t.min_y[ReflectChunkIndex(i)]],
         max_x |-> [i \in 0..8 |-> IF touched(ReflectChunkIndex(i))
                                   THEN ReflectX(t.min_x[ReflectChunkIndex(i)])
                                   ELSE 0],
         max_y |-> [i \in 0..8 |-> t.max_y[ReflectChunkIndex(i)]],
         written |-> { <<ReflectChunkIndex(w[1]), ReflectX(w[2]), w[3]>> : w \in t.written },
         last_call |-> t.last_call]
ReflectLoop(l) ==
    IF l = None THEN None
    ELSE [rect |-> ReflectRect(l.rect), lr |-> ~l.lr, x |-> ReflectX(l.x), y |-> l.y]
Reflect(run) ==
    [chunk_data |-> [i \in 0..8 |-> ReflectContext(run.chunk_data[ReflectChunkIndex(i)])],
     particles |-> [k \in DOMAIN run.particles |->
                       [run.particles[k] EXCEPT !.pos[1] = ReflectX(@)]],
     helper |-> ReflectTrackers(run.helper),
     loop |-> ReflectLoop(run.loop),
     pc |-> run.pc,
     origin |-> << -run.origin[1], run.origin[2] >>]
ReflectRng(rng) == [rng EXCEPT !.side_coin = ~@]

InitMirror ==
    /\ InitChunks
    /\ InitRun
    /\ mirror = Reflect(ThisRun)
    /\ probe = None
    /\ scene = None
    /\ InitNoBodies

BothIdle ==
    /\ SimulateChunkIdle
    /\ \E scan_lr \in BOOLEAN : mirror' = simulate_chunk_enter(mirror, ~scan_lr)
    /\ UNCHANGED <<probe, scene>>
    /\ UNCHANGED body_vars

BothEnter ==
    /\ pc = "idle"
    /\ chunk_data[CENTER_CHUNK].dirty_rect # None
    /\ \E scan_lr \in BOOLEAN :
          /\ \E next \in {simulate_chunk_enter(ThisRun, scan_lr)} : Becomes(next)
          /\ mirror' = simulate_chunk_enter(mirror, ~scan_lr)
    /\ UNCHANGED <<probe, scene>>
    /\ UNCHANGED body_vars

BothProcess ==
    /\ pc = "scan"
    /\ \E rng \in DrawsFor(get_pixel_local_unchecked(HelperOf(ThisRun), loop.x, loop.y)) :
          /\ \E next \in {simulate_chunk_iter(ThisRun, rng)} : Becomes(next)
          /\ mirror' = IF mirror.pc = "scan"
                       THEN simulate_chunk_iter(mirror, ReflectRng(rng))
                       ELSE mirror
    /\ UNCHANGED <<probe, scene>>
    /\ UNCHANGED body_vars

NextMirror == BothIdle \/ BothEnter \/ BothProcess

SpecMirror == InitMirror /\ [][NextMirror]_vars

(***************************************************************************)
(* Two calls at once.  Call A works on the nine contexts of the variables, *)
(* call B on nine other contexts (kept in mirror) three chunks to the      *)
(* east, so that the two neighbourhoods share no chunk.  Each call is made *)
(* once; their per-pixel operations interleave in every way.  Both push to *)
(* the one particle list (particles); a push is atomic.  scene records the *)
(* two initial call sites and the draws each call made.                    *)
(***************************************************************************)
PairOrigin == <<2, 2>>

\* One sand pixel at the top-left cell of the window's rectangle.
PairChunks(a, t, has_rect) ==
    LET r == WindowRect(a)
        world == [c \in Local \X Local |->
                    IF c = <<r.x1, r.y1>> THEN sand
                    ELSE IF Terrain(a, t, c[1], c[2]) THEN stone ELSE air]
    IN  Contexts(world, IF has_rect THEN r ELSE None)

\* Call B with the shared particle list in the place of its argument.
PairRunB == [mirror EXCEPT !.particles = particles]

PairBecomesB(run) ==
    /\ mirror' = [run EXCEPT !.particles = <<>>]
    /\ particles' = run.particles

InitPair ==
    /\ \E a \in Anchors, t \in Terrains :
          chunk_data = PairChunks(a, t, TRUE)
    /\ InitRun
    /\ \E a \in Anchors, t \in {"open", "floor"}, has_rect \in BOOLEAN :
          mirror = [chunk_data |-> PairChunks(a, t, has_rect), particles |-> <<>>,
                    helper |-> NewTrackers("never"), loop |-> None, pc |-> "idle",
                    origin |-> PairOrigin]
    /\ probe = None
    /\ scene = [a |-> ThisRun, b |-> mirror,
                coin_a |-> <<>>, coin_b |-> <<>>, draws_a |-> <<>>, draws_b |-> <<>>]
    /\ InitNoBodies

PairCallA ==
    /\ pc = "idle"
    /\ helper.last_call = "never"
    /\ \E scan_lr \in BOOLEAN :
          /\ \E next \in {simulate_chunk_enter(ThisRun, scan_lr)} : Becomes(next)
          /\ scene' = [scene EXCEPT !.coin_a = <<scan_lr>>]
    /\ UNCHANGED <<mirror, probe>>
    /\ UNCHANGED body_vars

PairProcessA ==
    /\ pc = "scan"
    /\ \E rng \in DrawsFor(get_pixel_local_unchecked(HelperOf(ThisRun), loop.x, loop.y)) :
          /\ \E next \in {simulate_chunk_iter(ThisRun, rng)} : Becomes(next)
          /\ scene' = [scene EXCEPT !.draws_a = Append(@, rng)]
    /\ UNCHANGED <<mirror, probe>>
    /\ UNCHANGED body_vars

PairCallB ==
    /\ mirror.pc = "idle"
    /\ mirror.helper.last_call = "never"
    /\ \E scan_lr \in BOOLEAN :
          /\ \E next \in {simulate_chunk_enter(PairRunB, scan_lr)} : PairBecomesB(next)
          /\ scene' = [scene EXCEPT !.coin_b = <<scan_lr>>]
    /\ UNCHANGED <<chunk_data, helper, loop, pc, origin, probe>>
    /\ UNCHANGED body_vars

PairProcessB ==
    /\ mirror.pc = "scan"
    /\ \E rng \in DrawsFor(get_pixel_local_unchecked(HelperOf(PairRunB),
                                                     mirror.loop.x, mirror.loop.y)) :
          /\ \E next \in {simulate_chunk_iter(PairRunB, rng)} : PairBecomesB(next)
          /\ scene' = [scene EXCEPT !.draws_b = Append(@, rng)]
    /\ UNCHANGED <<chunk_data, helper, loop, pc, origin, probe>>
    /\ UNCHANGED body_vars

NextPair == PairCallA \/ PairProcessA \/ PairCallB \/ PairProcessB

SpecPair == InitPair /\ [][NextPair]_vars

(***************************************************************************)
(* simulate_pixel on its own, as process calls it: one pixel of the center *)
(* chunk, the cells the rule reads around it drawn as inputs, the draws of *)
(* the call drawn as inputs.  The pixel is one column from the west border *)
(* and two rows from the south border, so that the reads reach the west    *)
(* and the south chunk.  scene keeps the contexts as they were; probe      *)
(* holds the coordinate, the draws and what simulate_pixel returned.       *)
(***************************************************************************)
PixelX == 1
PixelY == CHUNK_SIZE - 2

\* Which of the four cells from two rows below on are blocked (0 is the
\* cell two rows below).
Shafts == { {}, {0}, {1}, {3}, {0, 2} }
\* The cells the slope hop reads, as offsets from the pixel.
HopCells == { <<-2, 1>>, <<-2, 2>>, <<2, 1>>, <<2, 2>> }

InitPixel ==
    /\ \E cur \in {air, sand, stone} :
       \E above \in {air, sand} :
       \E below, bl, br \in {air, stone} :
       \E shaft \in Shafts :
       \E hop \in [HopCells -> {air, stone}] :
          LET at(c) == <<c[1] - PixelX, c[2] - PixelY>>
              world == [c \in Local \X Local |->
                          CASE at(c) = <<0, 0>> -> cur
                            [] at(c) = <<0, -1>> -> above
                            [] at(c) = <<0, 1>> -> below
                            [] at(c) = <<-1, 1>> -> bl
                            [] at(c) = <<1, 1>> -> br
                            [] at(c) \in HopCells -> hop[at(c)]
                            [] at(c)[1] = 0 /\ (at(c)[2] - 2) \in shaft -> stone
                            [] OTHER -> air]
          IN  /\ chunk_data = Contexts(world, Rect_new_wh(PixelX, PixelY, 1, 1))
              /\ probe \in [x : {PixelX}, y : {PixelY}, rng : DrawsFor(cur),
                            done : {FALSE}, out : {NoMat}]
    /\ particles = <<>>
    /\ helper = NewTrackers("scanned")
    /\ loop = None
    /\ pc = "idle"
    /\ origin = <<-1, 2>>
    /\ mirror = None
    /\ scene = [chunk_data |-> chunk_data]
    /\ InitNoBodies

\* process(x, y): simulate_pixel and the write of what it returned.
SimulatePixel ==
    /\ ~probe.done
    /\ \E res \in { simulate_pixel(probe.x, probe.y,
                                   get_pixel_local_unchecked(HelperOf(ThisRun), probe.x, probe.y),
                                   HelperOf(ThisRun), probe.rng) } :
       \E h2 \in { process_result(probe.x, probe.y, res) } :
          /\ probe' = [probe EXCEPT !.done = TRUE, !.out = res.new_mat]
          /\ chunk_data' = h2.chunk_data
          /\ particles' = h2.particles
          /\ helper' = [helper EXCEPT !.min_x = h2.min_x, !.min_y = h2.min_y,
                                      !.max_x = h2.max_x, !.max_y = h2.max_y,
                                      !.written = h2.written]
    /\ UNCHANGED <<loop, pc, origin, mirror, scene>>
    /\ UNCHANGED body_vars

NextPixel == SimulatePixel

SpecPixel == InitPixel /\ [][NextPixel]_vars

(***************************************************************************)
(* Simulator::simulate_rigidbodies.  A stepping is the state of one call:  *)
(* the chunk handler, the body list, the physics world, the particles and  *)
(* step, which holds the position (pc, i, rb_x, rb_y), the two flag        *)
(* vectors and, as history, the handles removed and the rebuilds made.     *)
(***************************************************************************)
ThisStepping ==
    [chunk_handler |-> chunk_handler, rigidbodies |-> rigidbodies,
     physics |-> physics_world, particles |-> particles, step |-> step]

SteppingBecomes(r) ==
    /\ chunk_handler' = r.chunk_handler
    /\ rigidbodies' = r.rigidbodies
    /\ physics_world' = r.physics
    /\ particles' = r.particles
    /\ step' = r.step

RigidBodyHelperOf(r) ==
    [chunk_handler |-> r.chunk_handler, rigidbodies |-> r.rigidbodies,
     physics |-> r.physics, particles |-> r.particles]

\* The outer loop from body i on: the next body that has a physics body and
\* a first cell, or the end of the loop.
RECURSIVE enter_body(_, _)
enter_body(r, i) ==
    IF i > Len(r.rigidbodies)
    THEN [r EXCEPT !.step.pc = "loops_done", !.step.i = i]
    ELSE IF \/ get_body(r.rigidbodies[i], r.physics) = None
            \/ r.rigidbodies[i].width = 0
            \/ r.rigidbodies[i].height = 0
    THEN enter_body(r, i + 1)
    ELSE [r EXCEPT !.step.pc = "pixel", !.step.i = i, !.step.rb_x = 0, !.step.rb_y = 0]

\* The two flag vectors, all false, and the first body.
simulate_rigidbodies_enter(r) ==
    enter_body(
        [r EXCEPT !.step = [pc |-> "pixel", i |-> 1, rb_x |-> 0, rb_y |-> 0,
                            dirty |-> [k \in 1..Len(r.rigidbodies) |-> FALSE],
                            needs_remesh |-> [k \in 1..Len(r.rigidbodies) |-> FALSE],
                            removed |-> <<>>, rebuilt |-> <<>>]],
        1)

\* The index of the cell the loops are at, in the body's pixel grid.
cell_index(rb_x, rb_y, rb_w) == rb_x + rb_y * rb_w

\* The world coordinate the loops pass to simulate_pixel for a cell.
cell_world(rb_x, rb_y, body) ==
    LET s == sin(body.angle)
        c == cos(body.angle)
        pos_x == body.translation[1]
        pos_y == body.translation[2]
        tx == f32_from(rb_x) * c - f32_from(rb_y) * s + pos_x
        ty == f32_from(rb_x) * s + f32_from(rb_y) * c + pos_y
    IN  << f32_as_i32(tx), f32_as_i32(ty) >>

\* Mutant: any change of physics type asks for a remesh.
crosses_solid_any_change(cur, mat) == physics(cur) # physics(mat)

\* The test that sets needs_remesh[i].
crosses_solid(cur, mat) ==
    \/ physics(cur) = "Solid" /\ physics(mat) # "Solid"
    \/ physics(cur) # "Solid" /\ physics(mat) = "Solid"

\* The loops after the body of one iteration: rb_x in 0..rb_h inside,
\* rb_y in 0..rb_w outside, then the next body.
next_cell(r) ==
    LET st == r.step
        rb == r.rigidbodies[st.i]
    IN  IF st.rb_x + 1 < rb.height
        THEN [r EXCEPT !.step.rb_x = st.rb_x + 1]
        ELSE IF st.rb_y + 1 < rb.width
        THEN [r EXCEPT !.step.rb_x = 0, !.step.rb_y = st.rb_y + 1]
        ELSE enter_body(r, st.i + 1)

\* Mutant: the body is marked dirty whatever simulate_pixel returned.
pixel_result_dirty_always(r, at, cur, res) ==
    LET i == r.step.i
        mat == res.new_mat
        after == [r EXCEPT !.chunk_handler = res.helper.chunk_handler,
                           !.particles = res.helper.particles,
                           !.step.dirty[i] = TRUE]
    IN  IF mat # NoMat
        THEN [after EXCEPT
                !.rigidbodies[i].pixels[at] = mat,
                !.step.needs_remesh[i] = @ \/ crosses_solid(cur, mat)]
        ELSE after

\* The second half of an iteration: res is what simulate_pixel returned.
pixel_result(r, at, cur, res) ==
    LET i == r.step.i
        mat == res.new_mat
        after == [r EXCEPT !.chunk_handler = res.helper.chunk_handler,
                           !.particles = res.helper.particles]
    IN  IF mat # NoMat
        THEN [after EXCEPT
                !.rigidbodies[i].pixels[at] = mat,
                !.step.dirty[i] = TRUE,
                !.step.needs_remesh[i] = @ \/ crosses_solid(cur, mat)]
        ELSE after

\* The cell the loops are at, if the grid has it.
cell_cur(r) ==
    LET rb == r.rigidbodies[r.step.i]
        at == cell_index(r.step.rb_x, r.step.rb_y, rb.width)
    IN  IF at \in DOMAIN rb.pixels THEN rb.pixels[at] ELSE NoMat

\* One iteration of the loops over the cells of body i.
simulate_rigidbodies_pixel(r, rng) ==
    LET st == r.step
        rb == r.rigidbodies[st.i]
        at == cell_index(st.rb_x, st.rb_y, rb.width)
        t == cell_world(st.rb_x, st.rb_y, get_body(rb, r.physics))
    IN  IF at \notin DOMAIN rb.pixels
        THEN [r EXCEPT !.step.pc = "panicked"]
        ELSE IF simulate_pixel_panics(t[1], t[2], rb.pixels[at], RigidBodyHelperOf(r), rng)
        THEN [r EXCEPT !.step.pc = "panicked"]
        ELSE CHOOSE next \in
               { next_cell(pixel_result(r, at, rb.pixels[at], res)) :
                   res \in { simulate_pixel(t[1], t[2], rb.pixels[at],
                                            RigidBodyHelperOf(r), rng) } } : TRUE

(***************************************************************************)
(* The end of simulate_rigidbodies: image_dirty and the remesh.            *)
(* make_bodies either fails or makes 0..MaxPieces bodies; which one is the *)
(* outcome o (-1 for a failure).                                           *)
(***************************************************************************)
Outcomes == -1 .. MaxPieces

\* rigidbody::FSRigidBody::make_bodies(pixels, width, height, physics, pos):
\* new bodies at pos, at rest, with new handles.
make_bodies(pixels, width, height, ph, pos, o) ==
    IF o < 0
    THEN [ok |-> FALSE, bodies |-> <<>>, physics |-> ph]
    ELSE
      LET handles == [k \in 1..o |-> ph.next + k - 1]
          fresh == [translation |-> pos, angle |-> 0, linvel |-> <<0, 0>>, angvel |-> 0]
      IN  [ok |-> TRUE,
           bodies |-> [k \in 1..o |->
                          [width |-> width, height |-> height, pixels |-> pixels,
                           body |-> <<handles[k]>>, image_dirty |-> TRUE]],
           physics |-> [bodies |-> [h \in DOMAIN ph.bodies \cup {handles[k] : k \in 1..o} |->
                                       IF h \in DOMAIN ph.bodies THEN ph.bodies[h] ELSE fresh],
                        next |-> ph.next + o]]

\* physics.bodies.remove(handle, ..)
bodies_remove(ph, handle) ==
    [ph EXCEPT !.bodies = [h \in DOMAIN ph.bodies \ {handle} |-> ph.bodies[h]]]

\* Result<Vec<FSRigidBody>, _>::unwrap_or_default
unwrap_or_default(made) == IF made.ok THEN made.bodies ELSE <<>>

\* Mutant: the new body takes the pose but not the velocities.
inherit_pose_only(body, old) ==
    [body EXCEPT !.translation = old.translation, !.angle = old.angle]

\* set_position(Isometry2::new(rb_pos, rb_angle)), set_linvel, set_angvel
inherit(body, old) ==
    [body EXCEPT !.translation = old.translation, !.angle = old.angle,
                 !.linvel = old.linvel, !.angvel = old.angvel]

\* Mutant: of the bodies a rebuild makes only the first is kept.
remesh_closure_first_only(rb, flagged, ph, o) ==
    IF flagged
    THEN
      IF get_body(rb, ph) = None
      THEN [panicked |-> TRUE, bodies |-> <<>>, physics |-> ph, removed |-> <<>>, rebuilt |-> <<>>]
      ELSE
        LET old == get_body(rb, ph)
            made == make_bodies(rb.pixels, rb.width, rb.height,
                                bodies_remove(ph, rb.body[1]), old.translation, o)
            list == unwrap_or_default(made)
            r == SubSeq(list, 1, Min(1, Len(list)))
            news == { list[k].body[1] : k \in 1..Len(list) }
        IN  [panicked |-> FALSE,
             bodies |-> r,
             physics |-> [made.physics EXCEPT !.bodies =
                            [h \in DOMAIN @ |-> IF h \in news THEN inherit(@[h], old) ELSE @[h]]],
             removed |-> <<rb.body[1]>>,
             rebuilt |-> << [old |-> rb.body[1], new |-> [k \in 1..Len(list) |-> list[k].body[1]],
                             from |-> rb.pixels, ok |-> made.ok] >>]
    ELSE [panicked |-> FALSE, bodies |-> <<rb>>, physics |-> ph, removed |-> <<>>, rebuilt |-> <<>>]

\* The closure of flat_map for one body: what it returns (bodies), what it
\* does to the physics world, and as history the handle removed and the
\* rebuild.  get_body(..).unwrap() panics on a body without a physics body.
remesh_closure(rb, flagged, ph, o) ==
    IF flagged
    THEN
      IF get_body(rb, ph) = None
      THEN [panicked |-> TRUE, bodies |-> <<>>, physics |-> ph, removed |-> <<>>, rebuilt |-> <<>>]
      ELSE
        LET old == get_body(rb, ph)
            made == make_bodies(rb.pixels, rb.width, rb.height,
                                bodies_remove(ph, rb.body[1]), old.translation, o)
            r == unwrap_or_default(made)
            news == { r[k].body[1] : k \in 1..Len(r) }
        IN  [panicked |-> FALSE,
             bodies |-> r,
             physics |-> [made.physics EXCEPT !.bodies =
                            [h \in DOMAIN @ |-> IF h \in news THEN inherit(@[h], old) ELSE @[h]]],
             removed |-> <<rb.body[1]>>,
             rebuilt |-> << [old |-> rb.body[1], new |-> [k \in 1..Len(r) |-> r[k].body[1]],
                             from |-> rb.pixels, ok |-> made.ok] >>]
    ELSE [panicked |-> FALSE, bodies |-> <<rb>>, physics |-> ph, removed |-> <<>>, rebuilt |-> <<>>]

\* drain(..).enumerate().flat_map(..).collect() from body i on; acc is what
\* the bodies before i left.
RECURSIVE flat_map_from(_, _, _, _, _)
flat_map_from(rbs, needs_remesh, outcomes, i, acc) ==
    IF acc.panicked \/ i > Len(rbs)
    THEN acc
    ELSE
      LET one == remesh_closure(rbs[i], needs_remesh[i], acc.physics,
                                IF needs_remesh[i] THEN outcomes[i] ELSE 0)
      IN  flat_map_from(rbs, needs_remesh, outcomes, i + 1,
            [panicked |-> one.panicked,
             bodies |-> acc.bodies \o one.bodies,
             physics |-> one.physics,
             removed |-> acc.removed \o one.removed,
             rebuilt |-> acc.rebuilt \o one.rebuilt])

\* Mutant: every body gets image_dirty, changed or not.
simulate_rigidbodies_finish_marks_all(r, outcomes) ==
    LET st == r.step
        marked == [k \in 1..Len(r.rigidbodies) |->
                     IF ~st.needs_remesh[k]
                     THEN [r.rigidbodies[k] EXCEPT !.image_dirty = TRUE]
                     ELSE r.rigidbodies[k]]
        new_rb == flat_map_from(marked, st.needs_remesh, outcomes, 1,
                    [panicked |-> FALSE, bodies |-> <<>>, physics |-> r.physics,
                     removed |-> <<>>, rebuilt |-> <<>>])
    IN  [r EXCEPT !.rigidbodies = new_rb.bodies,
                  !.physics = new_rb.physics,
                  !.step.pc = IF new_rb.panicked THEN "panicked" ELSE "done",
                  !.step.removed = new_rb.removed,
                  !.step.rebuilt = new_rb.rebuilt]

\* After the loops: image_dirty for the bodies that changed and keep their
\* shape, the remesh of the others, and the list put back.
simulate_rigidbodies_finish(r, outcomes) ==
    LET st == r.step
        marked == [k \in 1..Len(r.rigidbodies) |->
                     IF st.dirty[k] /\ ~st.needs_remesh[k]
                     THEN [r.rigidbodies[k] EXCEPT !.image_dirty = TRUE]
                     ELSE r.rigidbodies[k]]
        new_rb == flat_map_from(marked, st.needs_remesh, outcomes, 1,
                    [panicked |-> FALSE, bodies |-> <<>>, physics |-> r.physics,
                     removed |-> <<>>, rebuilt |-> <<>>])
    IN  [r EXCEPT !.rigidbodies = new_rb.bodies,
                  !.physics = new_rb.physics,
                  !.step.pc = IF new_rb.panicked THEN "panicked" ELSE "done",
                  !.step.removed = new_rb.removed,
                  !.step.rebuilt = new_rb.rebuilt]

(***************************************************************************)
(* Initial configurations of the rigid-body step.  Chunk (0, 0) is loaded  *)
(* and all air; chunk (0, 1) below it is loaded, with a stone floor in its *)
(* second row, or not loaded.  The first body lies on the last two rows of *)
(* chunk (0, 0), at a whole or a half pixel, upright or turned a quarter;  *)
(* its cells are sand or stone.  Further bodies are stone, below the       *)
(* first, with or without a physics body, their image up to date or not.   *)
(***************************************************************************)
WorldChunks(south_loaded) ==
    [c \in (IF south_loaded THEN {<<0, 0>>, <<0, 1>>} ELSE {<<0, 0>>}) |->
        LET pix == [px \in 0 .. (CHUNK_SIZE * CHUNK_SIZE - 1) |->
                      IF c = <<0, 1>> /\ px \div CHUNK_SIZE = 1 THEN stone ELSE air]
        IN  [pixels |-> pix, colors |-> [px \in DOMAIN pix |-> color(pix[px])]]]

Grids(width, height, mats) == [0 .. (width * height - 1) -> mats]

AtRest(translation, angle) ==
    [translation |-> translation, angle |-> angle, linvel |-> <<0, 0>>, angvel |-> 0]

FirstBodies ==
    UNION { { [rb |-> [width |-> bw, height |-> bh, pixels |-> g, body |-> <<1>>,
                       image_dirty |-> FALSE],
               at |-> AtRest(<<f32_from(1) + half, f32_from(CHUNK_SIZE - 2)>>, angle)] :
                half \in {0, 1}, angle \in {0, 1}, g \in Grids(bw, bh, {sand, stone}) } :
            bw \in 1..MaxSide, bh \in 1..MaxSide }

OtherBodies(k) ==
    { [rb |-> [width |-> bw, height |-> bh, pixels |-> [c \in 0 .. (bw * bh - 1) |-> stone],
               body |-> IF has_body THEN <<k>> ELSE <<>>, image_dirty |-> image_dirty],
       at |-> AtRest(<<f32_from(1), f32_from(CHUNK_SIZE + gap)>>, 0)] :
        bw \in 1..MaxSide, bh \in 1..MaxSide, gap \in {0, 1}, has_body \in BOOLEAN,
        image_dirty \in BOOLEAN }

\* The physics world that holds the bodies of a list of placed bodies.
PhysicsOf(placed) ==
    [bodies |-> [h \in { placed[k].rb.body[1] : k \in { j \in 1..Len(placed) : placed[j].rb.body # <<>> } } |->
                    placed[h].at],
     next |-> Len(placed) + 1]

InitBodies ==
    /\ InitNoRun
    /\ mirror = None
    /\ probe = None
    /\ \E south_loaded \in BOOLEAN : chunk_handler = WorldChunks(south_loaded)
    /\ \E n \in 1..MaxBodies :
       \E first \in FirstBodies :
       \E others \in [2..n -> UNION { OtherBodies(k) : k \in 2..n }] :
          /\ \A k \in 2..n : others[k] \in OtherBodies(k)
          /\ LET placed == [k \in 1..n |-> IF k = 1 THEN first ELSE others[k]]
             IN  /\ rigidbodies = [k \in 1..n |-> placed[k].rb]
                 /\ physics_world = PhysicsOf(placed)
    /\ step = [pc |-> "idle"]
    /\ scene = [chunk_handler |-> chunk_handler, rigidbodies |-> rigidbodies,
                physics |-> physics_world]

RigidBodiesEnter ==
    /\ step.pc = "idle"
    /\ \E next \in {simulate_rigidbodies_enter(ThisStepping)} : SteppingBecomes(next)
    /\ UNCHANGED <<chunk_data, helper, loop, pc, origin, mirror, probe, scene>>

RigidBodiesPixel ==
    /\ step.pc = "pixel"
    /\ \E rng \in DrawsFor(cell_cur(ThisStepping)) :
       \E next \in {simulate_rigidbodies_pixel(ThisStepping, rng)} : SteppingBecomes(next)
    /\ UNCHANGED <<chunk_data, helper, loop, pc, origin, mirror, probe, scene>>

RigidBodiesFinish ==
    /\ step.pc = "loops_done"
    /\ \E outcomes \in [{ k \in 1..Len(rigidbodies) : step.needs_remesh[k] } -> Outcomes] :
       \E next \in {simulate_rigidbodies_finish(ThisStepping, outcomes)} : SteppingBecomes(next)
    /\ UNCHANGED <<chunk_data, helper, loop, pc, origin, mirror, probe, scene>>

NextBodies == RigidBodiesEnter \/ RigidBodiesPixel \/ RigidBodiesFinish

SpecBodies == InitBodies /\ [][NextBodies]_vars

(***************************************************************************)
(* simulate_rigidbodies called again and again: when a call has returned   *)
(* the next one starts from the world, the bodies and the particles it     *)
(* left.                                                                   *)
(***************************************************************************)
RigidBodiesReturn ==
    /\ step.pc = "done"
    /\ step' = [pc |-> "idle"]
    /\ scene' = [chunk_handler |-> chunk_handler, rigidbodies |-> rigidbodies,
                 physics |-> physics_world]
    /\ UNCHANGED <<chunk_handler, rigidbodies, physics_world, particles>>
    /\ UNCHANGED <<chunk_data, helper, loop, pc, origin, mirror, probe>>

NextCalls == RigidBodiesEnter \/ RigidBodiesPixel \/ RigidBodiesFinish \/ RigidBodiesReturn

SpecCalls == InitBodies /\ [][NextCalls]_vars

(***************************************************************************)
(* The end of simulate_rigidbodies on its own.  No transition of           *)
(* simulate_pixel crosses the Solid boundary, so the loops never set       *)
(* needs_remesh; here the state after the loops is drawn with the flags as *)
(* inputs (needs_remesh only with dirty), as a rule with such a transition *)
(* would leave them.  Every body has a physics body, as a body needs one   *)
(* to be stepped and flagged.                                              *)
(***************************************************************************)
Poses ==
    { [translation |-> <<f32_from(1), f32_from(1)>>, angle |-> 0, linvel |-> <<0, 0>>, angvel |-> 0],
      [translation |-> <<f32_from(2) + 1, f32_from(3)>>, angle |-> 1, linvel |-> <<1, -2>>, angvel |-> 3] }

InitRemesh ==
    /\ InitNoRun
    /\ mirror = None
    /\ probe = None
    /\ chunk_handler = WorldChunks(FALSE)
    /\ \E n \in 1..MaxBodies :
       \E grids \in [1..n -> Grids(1, 1, {air, sand, stone})] :
       \E poses \in [1..n -> Poses] :
       \E flags \in [1..n -> {"clean", "dirty", "remesh"}] :
          /\ rigidbodies = [k \in 1..n |->
                              [width |-> 1, height |-> 1, pixels |-> grids[k],
                               body |-> <<k>>, image_dirty |-> FALSE]]
          /\ physics_world = [bodies |-> [k \in 1..n |-> poses[k]], next |-> n + 1]
          /\ step = [pc |-> "loops_done", i |-> n + 1, rb_x |-> 0, rb_y |-> 0,
                     dirty |-> [k \in 1..n |-> flags[k] # "clean"],
                     needs_remesh |-> [k \in 1..n |-> flags[k] = "remesh"],
                     removed |-> <<>>, rebuilt |-> <<>>]
    /\ scene = [chunk_handler |-> chunk_handler, rigidbodies |-> rigidbodies,
                physics |-> physics_world]

NextRemesh == RigidBodiesFinish

SpecRemesh == InitRemesh /\ [][NextRemesh]_vars

(***************************************************************************)
(* The neighbour reads of the rigid-body helper on their own: get_pixel_   *)
(* local and get_color_local at a world coordinate, while the first body   *)
(* is the one being stepped.  Chunk (0, 0) is loaded and holds one stone   *)
(* pixel where the first body lies; no chunk is loaded below it.  The      *)
(* first body lies on the last two rows of chunk (0, 0), the others one    *)
(* row lower, over it and over the place with no chunk.                    *)
(***************************************************************************)
LookupWorld ==
    [c \in {<<0, 0>>} |->
        LET pix == [px \in 0 .. (CHUNK_SIZE * CHUNK_SIZE - 1) |->
                      IF px = 2 + (CHUNK_SIZE - 2) * CHUNK_SIZE THEN stone ELSE air]
        IN  [pixels |-> pix, colors |-> [px \in DOMAIN pix |-> color(pix[px])]]]

LookupFirstBodies ==
    UNION { { [rb |-> [width |-> bw, height |-> bh, pixels |-> g, body |-> <<1>>,
                       image_dirty |-> FALSE],
               at |-> AtRest(<<f32_from(1) + half, f32_from(CHUNK_SIZE - 2)>>, angle)] :
                half \in {0, 1}, angle \in {0, 1}, g \in Grids(bw, bh, {air, sand}) } :
            bw \in 1..MaxSide, bh \in 1..MaxSide }

LookupOtherBodies(k) ==
    UNION { { [rb |-> [width |-> bw, height |-> bh, pixels |-> g,
                       body |-> IF has_body THEN <<k>> ELSE <<>>, image_dirty |-> FALSE],
               at |-> AtRest(<<f32_from(1), f32_from(CHUNK_SIZE - 1)>>, 0)] :
                has_body \in BOOLEAN, g \in Grids(bw, bh, {air, stone}) } :
            bw \in 1..MaxSide, bh \in 1..MaxSide }

InitLookup ==
    /\ InitNoRun
    /\ mirror = None
    /\ chunk_handler = LookupWorld
    /\ \E n \in 1..MaxBodies :
       \E first \in LookupFirstBodies :
       \E others \in [2..n -> UNION { LookupOtherBodies(k) : k \in 2..n }] :
          /\ \A k \in 2..n : others[k] \in LookupOtherBodies(k)
          /\ LET placed == [k \in 1..n |-> IF k = 1 THEN first ELSE others[k]]
             IN  /\ rigidbodies = [k \in 1..n |-> placed[k].rb]
                 /\ physics_world = PhysicsOf(placed)
    /\ step = None
    /\ probe \in [x : 0..3, y : (CHUNK_SIZE - 2) .. (CHUNK_SIZE + 1), i : {1},
                  done : {FALSE}, out : {NoMat}, color : {NoMat}]
    /\ scene = None

\* One read of a pixel and of its color at the coordinate of probe.
Lookup ==
    /\ ~probe.done
    /\ probe' = [probe EXCEPT
                    !.done = TRUE,
                    !.out = RigidBody_get_pixel_local(RigidBodyHelperOf(ThisStepping),
                                                      probe.x, probe.y),
                    !.color = RigidBody_get_color_local(RigidBodyHelperOf(ThisStepping),
                                                        probe.x, probe.y)]
    /\ UNCHANGED <<chunk_data, particles, helper, loop, pc, origin, mirror, scene>>
    /\ UNCHANGED body_vars

NextLookup == Lookup

SpecLookup == InitLookup /\ [][NextLookup]_vars

(***************************************************************************)
(* local_to_indices on its own: the argument is drawn from the whole local *)
(* range, the action applies the function.                                 *)
(***************************************************************************)
InitIdx ==
    /\ chunk_data = StillChunks
    /\ InitRun
    /\ mirror = None
    /\ probe \in [x : Local, y : Local, done : {FALSE}, out : {<<0, 0, 0, 0>>}]
    /\ scene = None
    /\ InitNoBodies

LocalToIndices ==
    /\ ~probe.done
    /\ probe' = [probe EXCEPT !.done = TRUE, !.out = local_to_indices(probe.x, probe.y)]
    /\ UNCHANGED <<chunk_data, particles, helper, loop, pc, origin, mirror, scene>>
    /\ UNCHANGED body_vars

NextIdx == LocalToIndices

SpecIdx == InitIdx /\ [][NextIdx]_vars

(***************************************************************************)
(* Measures used by the properties.                                        *)
(***************************************************************************)
PixelAt(cd, x, y) == LET idx == local_to_indices(x, y) IN cd[idx[1]].pixels[idx[2]]
CellOf(x, y) == LET idx == local_to_indices(x, y) IN <<idx[1], idx[2]>>
\* The cells <<chunk, pixel index>> whose material differs between cd1 and cd2.
Changed(cd1, cd2) ==
    UNION { { <<i, px>> : px \in { q \in DOMAIN cd1[i].pixels : cd1[i].pixels[q] # cd2[i].pixels[q] } } :
            i \in { j \in 0..8 : cd1[j].pixels # cd2[j].pixels } }
\* How many of the given cells hold sand in cd.
SandAmong(cd, cells) == Cardinality({ c \in cells : physics(cd[c[1]].pixels[c[2]]) = "Sand" })
SameBuffers(cd1, cd2) ==
    \A i \in 0..8 : /\ cd1[i].pixels = cd2[i].pixels
                    /\ cd1[i].colors = cd2[i].colors
                    /\ cd1[i].lights = cd2[i].lights
AllRectsNone(cd) == \A i \in 0..8 : cd[i].dirty_rect = None

\* The bounding box of the cells of chunk i in a set of <<chunk, x, y>>.
BoundingBox(cells, i) ==
    LET mine == { c \in cells : c[1] = i }
        xs == { c[2] : c \in mine }
        ys == { c[3] : c \in mine }
        lo(S) == CHOOSE v \in S : \A w \in S : v <= w
        hi(S) == CHOOSE v \in S : \A w \in S : v >= w
    IN  IF mine = {} THEN None
        ELSE [x1 |-> lo(xs), y1 |-> lo(ys), x2 |-> hi(xs), y2 |-> hi(ys)]

(***************************************************************************)
(* C1. Idle skip: a simulate_chunk call on a center chunk with no dirty    *)
(* rectangle leaves the pixel, color and light buffers of the nine chunks  *)
(* and the particle list as they were and leaves the nine dirty rectangles *)
(* None; a further such call changes nothing at all.                       *)
(***************************************************************************)
C1_IdleSkip ==
    [][ (pc = "idle" /\ chunk_data[CENTER_CHUNK].dirty_rect = None) =>
            /\ SameBuffers(chunk_data, chunk_data')
            /\ particles' = particles
            /\ AllRectsNone(chunk_data')
            /\ pc' = "idle"
            /\ (AllRectsNone(chunk_data) => chunk_data' = chunk_data) ]_vars

\* An idle call has returned on a chunk that holds sand over open air.
C1_Witness ==
    /\ helper.last_call = "skipped"
    /\ AllRectsNone(chunk_data)
    /\ \E x, y \in 0 .. (CHUNK_SIZE - 1) :
          /\ PixelAt(chunk_data, x, y) = sand
          /\ PixelAt(chunk_data, x, y + 1) = air

(***************************************************************************)
(* C2. Neighbor mapping: for x, y in [-CHUNK_SIZE, 2*CHUNK_SIZE),          *)
(* local_to_indices gives chunk (floor(x/CHUNK_SIZE)+1) +                  *)
(* 3*(floor(y/CHUNK_SIZE)+1), chunk-local coordinates (x mod CHUNK_SIZE,   *)
(* y mod CHUNK_SIZE) that are not negative, pixel index cx + cy*CHUNK_SIZE;*)
(* the center chunk's coordinates give chunk 4, negative ones the western  *)
(* or northern neighbour, and neighbour offset * CHUNK_SIZE + chunk-local  *)
(* coordinate gives (x, y) back.                                           *)
(***************************************************************************)
C2_NeighborMapping ==
    (probe # None /\ probe.done) =>
        LET x == probe.x
            y == probe.y
            ch == probe.out[1]
            px == probe.out[2]
            cx == probe.out[3]
            cy == probe.out[4]
            in_center(v) == 0 <= v /\ v < CHUNK_SIZE
        IN  /\ ch = ((x \div CHUNK_SIZE) + 1) + 3 * ((y \div CHUNK_SIZE) + 1)
            /\ ch \in 0..8
            /\ cx = x % CHUNK_SIZE /\ cy = y % CHUNK_SIZE
            /\ in_center(cx) /\ in_center(cy)
            /\ px = cx + cy * CHUNK_SIZE
            /\ (in_center(x) /\ in_center(y)) => ch = CENTER_CHUNK
            /\ x < 0 => ch % 3 = 0
            /\ y < 0 => ch \div 3 = 0
            /\ ((ch % 3) - 1) * CHUNK_SIZE + cx = x
            /\ ((ch \div 3) - 1) * CHUNK_SIZE + cy = y

\* The function was applied to a coordinate west and south of the center.
C2_Witness ==
    /\ probe # None
    /\ probe.done
    /\ probe.x < 0 /\ probe.x % CHUNK_SIZE # 0
    /\ probe.y >= CHUNK_SIZE
    /\ probe.out[1] = 6

(***************************************************************************)
(* C3. Tight dirty rectangles: when a simulate_chunk call that found a     *)
(* center dirty rectangle has returned, the dirty rectangle of each of the *)
(* nine chunks is the bounding box of the cells of that chunk whose        *)
(* material the call wrote, and None when it wrote none, whatever the      *)
(* rectangle was before.                                                   *)
(***************************************************************************)
C3_TightDirtyRects ==
    (pc = "idle" /\ helper.last_call = "scanned") =>
        \A i \in 0..8 : chunk_data[i].dirty_rect = BoundingBox(helper.written, i)

\* A call has returned that wrote several cells of the center chunk and
\* cells of a neighbour, and left other neighbours untouched.
C3_Witness ==
    /\ pc = "idle"
    /\ helper.last_call = "scanned"
    /\ chunk_data[CENTER_CHUNK].dirty_rect # None
    /\ chunk_data[CENTER_CHUNK].dirty_rect.x1 < chunk_data[CENTER_CHUNK].dirty_rect.x2
    /\ \E i \in (0..8) \ {CENTER_CHUNK} : chunk_data[i].dirty_rect # None
    /\ \E i \in (0..8) \ {CENTER_CHUNK} : chunk_data[i].dirty_rect = None

(***************************************************************************)
(* C4. Mass conservation in a chunk step: processing a sand pixel either   *)
(* writes nothing, or turns the source cell to air and puts its material   *)
(* in exactly one place: one destination cell that was air (one or two     *)
(* rows down, a lower diagonal, or a hop target) or one appended particle. *)
(* So the sand cells of the nine chunks plus the particles keep their      *)
(* number.  A sand pixel with air all around always moves.                 *)
(***************************************************************************)
Destinations(x, y) ==
    { CellOf(x, y + 1), CellOf(x, y + 2), CellOf(x - 1, y + 1), CellOf(x + 1, y + 1),
      CellOf(x - 2, y + 1), CellOf(x + 2, y + 1) }

Surrounded(cd, x, y) ==
    \A dx, dy \in {-1, 0, 1} : (dx # 0 \/ dy # 0) => PixelAt(cd, x + dx, y + dy) = air

C4_MassConservation ==
    [][ pc = "scan" =>
          \E changed \in {Changed(chunk_data, chunk_data')} :
          LET x == loop.x
              y == loop.y
              cur == PixelAt(chunk_data, x, y)
              src == CellOf(x, y)
              into_cell ==
                  /\ particles' = particles
                  /\ \E d \in Destinations(x, y) :
                        /\ changed = {src, d}
                        /\ d # src
                        /\ chunk_data[d[1]].pixels[d[2]] = air
                        /\ chunk_data'[d[1]].pixels[d[2]] = cur
              into_particle ==
                  /\ changed = {src}
                  /\ Len(particles') = Len(particles) + 1
                  /\ SubSeq(particles', 1, Len(particles)) = particles
                  /\ particles'[Len(particles')].material = cur
          IN  /\ physics(cur) = "Sand" =>
                    \/ changed = {} /\ particles' = particles
                    \/ /\ PixelAt(chunk_data', x, y) = air
                       /\ into_cell \/ into_particle
              \* the cells that did not change hold the same sand before and after
              /\ SandAmong(chunk_data', changed) + Len(particles')
                    = SandAmong(chunk_data, changed) + Len(particles)
              /\ (physics(cur) = "Sand" /\ Surrounded(chunk_data, x, y)) => changed # {} ]_vars

\* A sand pixel has gone into a particle and, in the latest call, another
\* into a cell of a neighbour chunk.
C4_Witness ==
    /\ Len(particles) >= 1
    /\ \E w \in helper.written :
          w[1] # CENTER_CHUNK /\ chunk_data[w[1]].pixels[w[2] + w[3] * CHUNK_SIZE] = sand

(***************************************************************************)
(* C5. Settling terminates: from a column of n sand pixels above m rows of *)
(* open air inside the center dirty rectangle, with simulate_chunk called  *)
(* again and again on the rectangles the previous call left, every         *)
(* sequence of draws reaches a state in which the center dirty rectangle   *)
(* is None, and there the sand cells of the nine chunks plus the particles *)
(* spawned number n.                                                       *)
(***************************************************************************)
AllCells == (0..8) \X (0 .. (CHUNK_SIZE * CHUNK_SIZE - 1))
Quiet == pc = "idle" /\ chunk_data[CENTER_CHUNK].dirty_rect = None

C5_SettlingTerminates ==
    /\ <>Quiet
    /\ [](Quiet => SandAmong(chunk_data, AllCells) + Len(particles) = scene.n)

\* The tallest column has come to rest on the floor after a fall.
C5_Witness ==
    /\ Quiet
    /\ scene # None
    /\ scene.n = MaxColumn /\ scene.m >= 1 /\ scene.has_floor
    /\ helper.last_call = "scanned"
    /\ PixelAt(chunk_data, scene.x, CHUNK_SIZE - 1) = sand
    /\ SandAmong(chunk_data, AllCells) + Len(particles) = scene.n

(***************************************************************************)
(* C6. Left/right symmetry: simulate_chunk on the reflected configuration  *)
(* (x reflected, west and east chunks swapped), with the opposite scan     *)
(* direction and the left/right coin reflected, ends in the reflection of  *)
(* the result on the original configuration: pixels, colors, lights,       *)
(* dirty rectangles, dirty flags and particles.                            *)
(***************************************************************************)
C6_MirrorSymmetry ==
    (pc = "idle" /\ helper.last_call # "never") =>
        /\ mirror.pc = "idle"
        /\ mirror = Reflect(ThisRun)

\* A call has ended in which sand moved to one side, so that the result and
\* its reflection differ.
C6_Witness ==
    /\ pc = "idle" /\ helper.last_call = "scanned"
    /\ mirror # None
    /\ \E w \in helper.written :
          /\ chunk_data[w[1]].pixels[w[2] + CHUNK_SIZE * w[3]] = sand
          /\ \E v \in helper.written : v[3] < w[3] /\ v[2] # w[2]
    /\ mirror.chunk_data # chunk_data
    /\ mirror = Reflect(ThisRun)

(***************************************************************************)
(* C7.  Where the writes of the rigid-body step land.  The statement that  *)
(* no cell of a world chunk is modified by the step is C7_WorldUntouched.  *)
(* What holds is C7_WritesLand: an iteration of the loops changes, in the  *)
(* pixel grids of the bodies, at most the cell of the stepped body it is   *)
(* at (which takes the material simulate_pixel returned), and the material *)
(* and color the rule moves go to the world chunk loaded at the            *)
(* destination coordinate: a moved pixel that did not become a particle is *)
(* afterwards in the world at a destination of the rule, unless no chunk   *)
(* is loaded there.  No other world cell and no other body changes.        *)
(***************************************************************************)
WorldCoordinates(ch) ==
    { << c[1] * CHUNK_SIZE + dx, c[2] * CHUNK_SIZE + dy >> :
        c \in DOMAIN ch, dx \in 0 .. (CHUNK_SIZE - 1), dy \in 0 .. (CHUNK_SIZE - 1) }
WorldPixel(ch, d) == ch[pixel_to_chunk_pos(d[1], d[2])].pixels[ChunkPixelIndex(d[1], d[2])]
WorldColor(ch, d) == ch[pixel_to_chunk_pos(d[1], d[2])].colors[ChunkPixelIndex(d[1], d[2])]
WorldChanged(ch1, ch2) ==
    UNION { { << c[1] * CHUNK_SIZE + (px % CHUNK_SIZE), c[2] * CHUNK_SIZE + (px \div CHUNK_SIZE) >> :
                px \in { q \in DOMAIN ch1[c].pixels :
                           \/ ch1[c].pixels[q] # ch2[c].pixels[q]
                           \/ ch1[c].colors[q] # ch2[c].colors[q] } } :
            c \in { e \in DOMAIN ch1 : ch1[e] # ch2[e] } }
WorldDestinations(t) ==
    { <<t[1], t[2] + 1>>, <<t[1], t[2] + 2>>, <<t[1] - 1, t[2] + 1>>, <<t[1] + 1, t[2] + 1>>,
      <<t[1] - 2, t[2] + 1>>, <<t[1] + 2, t[2] + 1>> }

C7_WorldUntouched == step.pc # "idle" => chunk_handler = scene.chunk_handler

C7_WritesLand ==
    [][ step.pc = "pixel" =>
          \E changed \in {WorldChanged(chunk_handler, chunk_handler')} :
          LET i == step.i
              rb == rigidbodies[i]
              at == cell_index(step.rb_x, step.rb_y, rb.width)
              t == cell_world(step.rb_x, step.rb_y, get_body(rb, physics_world))
          IN  /\ Len(rigidbodies') = Len(rigidbodies)
              /\ \A j \in 1..Len(rigidbodies) : j # i => rigidbodies'[j] = rigidbodies[j]
              /\ DOMAIN rigidbodies'[i].pixels = DOMAIN rb.pixels
              /\ \A k \in DOMAIN rb.pixels :
                    k # at => rigidbodies'[i].pixels[k] = rb.pixels[k]
              /\ DOMAIN chunk_handler' = DOMAIN chunk_handler
              /\ changed \subseteq WorldDestinations(t)
              /\ (rigidbodies'[i] # rb /\ particles' = particles) =>
                    \E d \in WorldDestinations(t) :
                       \/ ~ChunkHandler_loaded(chunk_handler, d[1], d[2])
                       \/ /\ changed = {d}
                          /\ WorldPixel(chunk_handler, d) = air
                          /\ WorldPixel(chunk_handler', d) = rb.pixels[at]
                          /\ WorldColor(chunk_handler', d) = color(rb.pixels[at]) ]_vars

\* The step has ended; a body lost a sand pixel and the world holds it.
C7_Witness ==
    /\ step.pc = "done"
    /\ Len(particles) = 0
    /\ \E d \in WorldCoordinates(chunk_handler) :
          /\ WorldPixel(chunk_handler, d) = sand
          /\ WorldPixel(scene.chunk_handler, d) = air
    /\ \E k \in 1..Len(rigidbodies) :
       \E c \in DOMAIN rigidbodies[k].pixels :
          rigidbodies[k].pixels[c] = air /\ scene.rigidbodies[k].pixels[c] = sand

(***************************************************************************)
(* C8. No remesh without a Solid transition: while and after the loops a   *)
(* body is flagged for remesh exactly when one of its cells is Solid now   *)
(* and was not at the start of the step, or the other way round; at the    *)
(* end of the step a body that is not flagged is in the list with the      *)
(* handle it had, its physics body is as it was, its handle was not        *)
(* removed, and the physics world holds no body it did not hold before     *)
(* other than the rebuilds of flagged bodies.                              *)
(***************************************************************************)
CrossedSolid(k) ==
    \E c \in DOMAIN rigidbodies[k].pixels :
        (physics(scene.rigidbodies[k].pixels[c]) = "Solid")
            # (physics(rigidbodies[k].pixels[c]) = "Solid")
RebuiltHandles ==
    UNION { { step.rebuilt[n].new[m] : m \in 1..Len(step.rebuilt[n].new) } :
            n \in 1..Len(step.rebuilt) }

C8_RemeshOnlyOnSolidChange ==
    /\ step.pc \in {"pixel", "loops_done"} =>
          \A k \in 1..Len(rigidbodies) : step.needs_remesh[k] <=> CrossedSolid(k)
    /\ step.pc = "done" =>
          /\ \A k \in 1..Len(scene.rigidbodies) :
                ~step.needs_remesh[k] =>
                   LET was == scene.rigidbodies[k]
                   IN  /\ \E j \in 1..Len(rigidbodies) :
                             /\ rigidbodies[j].body = was.body
                             /\ rigidbodies[j].width = was.width
                             /\ rigidbodies[j].height = was.height
                       /\ was.body # <<>> =>
                             /\ \A n \in 1..Len(step.removed) : step.removed[n] # was.body[1]
                             /\ was.body[1] \in DOMAIN physics_world.bodies
                             /\ physics_world.bodies[was.body[1]] = scene.physics.bodies[was.body[1]]
          /\ DOMAIN physics_world.bodies \ DOMAIN scene.physics.bodies \subseteq RebuiltHandles

\* The step has ended; a body lost a sand pixel, which is no Solid
\* transition: it was not flagged, is the same element and has its handle.
C8_Witness ==
    /\ step.pc = "done"
    /\ \E k \in 1..Len(rigidbodies) :
          /\ step.dirty[k] /\ ~step.needs_remesh[k]
          /\ rigidbodies[k].image_dirty
          /\ rigidbodies[k].body = scene.rigidbodies[k].body
          /\ rigidbodies[k].pixels # scene.rigidbodies[k].pixels
          /\ physics_world = scene.physics

(***************************************************************************)
(* C9. Remesh preserves pose and velocity: for every body flagged for      *)
(* remesh the step removes its handle from the physics world exactly once, *)
(* rebuilds from the pixel grid the body has after the loops, and every    *)
(* body the rebuild made is in the physics world with the translation,     *)
(* angle, linear velocity and angular velocity the old body had before it  *)
(* was removed.                                                            *)
(***************************************************************************)
RebuildsOf(handle) == { n \in 1..Len(step.rebuilt) : step.rebuilt[n].old = handle }

C9_RemeshPreservesPose ==
    step.pc = "done" =>
       \A k \in 1..Len(scene.rigidbodies) :
          step.needs_remesh[k] =>
             LET was == scene.rigidbodies[k]
                 old == scene.physics.bodies[was.body[1]]
             IN  /\ Cardinality({ n \in 1..Len(step.removed) : step.removed[n] = was.body[1] }) = 1
                 /\ was.body[1] \notin DOMAIN physics_world.bodies
                 /\ Cardinality(RebuildsOf(was.body[1])) = 1
                 /\ \A n \in RebuildsOf(was.body[1]) :
                       /\ step.rebuilt[n].from = was.pixels
                       /\ \A m \in 1..Len(step.rebuilt[n].new) :
                             LET handle == step.rebuilt[n].new[m]
                             IN  /\ handle \in DOMAIN physics_world.bodies
                                 /\ physics_world.bodies[handle].translation = old.translation
                                 /\ physics_world.bodies[handle].angle = old.angle
                                 /\ physics_world.bodies[handle].linvel = old.linvel
                                 /\ physics_world.bodies[handle].angvel = old.angvel

\* A turning, moving body was rebuilt into two bodies that turn and move
\* as it did.
C9_Witness ==
    /\ step.pc = "done"
    /\ \E n \in 1..Len(step.rebuilt) :
          /\ Len(step.rebuilt[n].new) = 2
          /\ scene.physics.bodies[step.rebuilt[n].old].angvel # 0
          /\ \A m \in 1..2 :
                physics_world.bodies[step.rebuilt[n].new[m]]
                    = scene.physics.bodies[step.rebuilt[n].old]

(***************************************************************************)
(* C10. Remesh output handling: the step ends without a panic; a flagged   *)
(* body whose rebuild failed or made no body is not in the list afterwards *)
(* and nothing stands for it; the bodies a rebuild made are all in the     *)
(* list; the bodies not flagged are in the list in the order they had.     *)
(***************************************************************************)
IsOld(rb) == rb.body # <<>> /\ rb.body[1] < scene.physics.next
IsKept(rb) == ~step.needs_remesh[rb.body[1]]
BodyOf(list) == [k \in 1..Len(list) |-> list[k].body]

C10_RemeshOutput ==
    /\ step.pc # "panicked"
    /\ step.pc = "done" =>
          /\ BodyOf(SelectSeq(rigidbodies, IsOld)) = BodyOf(SelectSeq(scene.rigidbodies, IsKept))
          /\ \A n \in 1..Len(step.rebuilt) :
                /\ \A j \in 1..Len(rigidbodies) : rigidbodies[j].body # <<step.rebuilt[n].old>>
                /\ \A m \in 1..Len(step.rebuilt[n].new) :
                      Cardinality({ j \in 1..Len(rigidbodies) :
                                      rigidbodies[j].body = <<step.rebuilt[n].new[m]>> }) = 1
          /\ \A j \in 1..Len(rigidbodies) :
                \/ IsOld(rigidbodies[j])
                \/ \E n \in 1..Len(step.rebuilt) : \E m \in 1..Len(step.rebuilt[n].new) :
                      rigidbodies[j].body = <<step.rebuilt[n].new[m]>>

\* A rebuild failed, the body is gone, and a body that was not flagged is
\* still there.
C10_Witness ==
    /\ step.pc = "done"
    /\ Len(scene.rigidbodies) = 2
    /\ Len(rigidbodies) = 1
    /\ \E n \in 1..Len(step.rebuilt) : ~step.rebuilt[n].ok
    /\ IsOld(rigidbodies[1])

(***************************************************************************)
(* C11. A body without a physics body is skipped: while the step runs and  *)
(* when it has ended, a rigid body whose handle get_body cannot resolve    *)
(* has the pixel grid and the image_dirty flag it had, is flagged neither  *)
(* dirty nor for remesh, and is in the body list; the loops never stand at *)
(* it, and a step that panics does so at another body.                     *)
(***************************************************************************)
Unresolved(k) == get_body(scene.rigidbodies[k], scene.physics) = None

C11_SkipsUnresolved ==
    step.pc # "idle" =>
       \A k \in 1..Len(scene.rigidbodies) :
          Unresolved(k) =>
             /\ ~step.dirty[k]
             /\ ~step.needs_remesh[k]
             /\ step.pc \in {"pixel", "panicked"} => step.i # k
             /\ \E j \in 1..Len(rigidbodies) : rigidbodies[j] = scene.rigidbodies[k]
             /\ step.pc # "done" => rigidbodies[k] = scene.rigidbodies[k]

\* The step has ended; the first body lost a pixel and got image_dirty, the
\* second has no physics body and is as it was.
C11_Witness ==
    /\ step.pc = "done"
    /\ Len(rigidbodies) = 2
    /\ Unresolved(2)
    /\ rigidbodies[2] = scene.rigidbodies[2]
    /\ ~rigidbodies[2].image_dirty
    /\ step.dirty[1]
    /\ rigidbodies[1].image_dirty

(***************************************************************************)
(* C12. Two simulate_chunk calls on neighbourhoods that share no chunk do  *)
(* not interfere: when both have returned, however their per-pixel         *)
(* operations interleaved, the pixel, color and light buffers, the dirty   *)
(* flags and the dirty rectangles of the eighteen chunks are what the two  *)
(* calls leave when one runs to its end before the other starts, in either *)
(* order and on the same draws, and the particle list holds the same       *)
(* particles as many times.                                                *)
(***************************************************************************)
BagOf(seq) ==
    [p \in { seq[k] : k \in DOMAIN seq } |-> Cardinality({ k \in DOMAIN seq : seq[k] = p })]
BothReturned ==
    /\ pc = "idle" /\ helper.last_call # "never"
    /\ mirror.pc = "idle" /\ mirror.helper.last_call # "never"

C12_NoInterference ==
    BothReturned =>
        LET a_first == simulate_chunk(scene.a, scene.coin_a[1], scene.draws_a)
            b_second == simulate_chunk([scene.b EXCEPT !.particles = a_first.particles],
                                       scene.coin_b[1], scene.draws_b)
            b_first == simulate_chunk(scene.b, scene.coin_b[1], scene.draws_b)
            a_second == simulate_chunk([scene.a EXCEPT !.particles = b_first.particles],
                                       scene.coin_a[1], scene.draws_a)
        IN  /\ chunk_data = a_first.chunk_data
            /\ chunk_data = a_second.chunk_data
            /\ mirror.chunk_data = b_first.chunk_data
            /\ mirror.chunk_data = b_second.chunk_data
            /\ BagOf(particles) = BagOf(b_second.particles)
            /\ BagOf(particles) = BagOf(a_second.particles)

\* Both calls have returned and each detached a particle; B's is ahead of
\* A's in the list.
C12_Witness ==
    /\ BothReturned
    /\ Len(particles) = 2
    /\ particles[1].pos[1] >= CHUNK_SIZE
    /\ particles[2].pos[1] < CHUNK_SIZE
    /\ helper.written # {}
    /\ mirror.helper.written # {}

(***************************************************************************)
(* C13. Scan order: a simulate_chunk call that found a center dirty        *)
(* rectangle starts at the bottom row of that rectangle; every iteration   *)
(* is at a cell of the rectangle, one place further in the order "rows     *)
(* from the bottom up, columns in the direction of the coin"; the          *)
(* rectangle and the coin stay what they were at the start of the call;    *)
(* and the call returns after the last place, so each cell of the          *)
(* rectangle is processed exactly once.                                    *)
(***************************************************************************)
RectWidth(r) == r.x2 - r.x1 + 1
RectHeight(r) == r.y2 - r.y1 + 1
InRect(r, x, y) == r.x1 <= x /\ x <= r.x2 /\ r.y1 <= y /\ y <= r.y2
\* The place of the loop position in the order of the scan, from 0.
ScanIndex(l) ==
    (l.rect.y2 - l.y) * RectWidth(l.rect)
        + (IF l.lr THEN l.x - l.rect.x1 ELSE l.rect.x2 - l.x)

C13_ScanOrder ==
    [][ /\ (pc = "idle" /\ pc' = "scan") =>
              /\ loop'.rect = chunk_data[CENTER_CHUNK].dirty_rect
              /\ InRect(loop'.rect, loop'.x, loop'.y)
              /\ loop'.y = loop'.rect.y2
              /\ ScanIndex(loop') = 0
        /\ (pc = "scan" /\ pc' = "scan") =>
              /\ loop'.rect = loop.rect
              /\ loop'.lr = loop.lr
              /\ InRect(loop'.rect, loop'.x, loop'.y)
              /\ loop'.y <= loop.y
              /\ ScanIndex(loop') = ScanIndex(loop) + 1
        /\ (pc = "scan" /\ pc' = "idle") =>
              ScanIndex(loop) = RectWidth(loop.rect) * RectHeight(loop.rect) - 1 ]_vars

\* A scan from right to left is in its second row from the bottom, past
\* the first cell of that row.
C13_Witness ==
    /\ pc = "scan"
    /\ ~loop.lr
    /\ loop.y < loop.rect.y2
    /\ loop.x < loop.rect.x2
    /\ ScanIndex(loop) = RectWidth(loop.rect) + 1

(***************************************************************************)
(* C14. No double move: an iteration of a simulate_chunk call puts the     *)
(* material it moves in a cell one or two rows below the cell it is at,    *)
(* and every cell a move of this call has filled lies in a row below the   *)
(* row the scan is at and goes on to (a row already scanned, or a row      *)
(* under the rectangle), so no iteration of the call is at a cell that a   *)
(* move of the call filled: no material moves twice in one call.           *)
(***************************************************************************)
\* Local row of an entry <<chunk, x in chunk, y in chunk>> of helper.written.
WrittenY(w) == ((w[1] \div 3) - 1) * CHUNK_SIZE + w[3]
WrittenX(w) == ((w[1] % 3) - 1) * CHUNK_SIZE + w[2]
\* The cells this call has written that hold material: the destinations of
\* its moves (a source cell is written with air).
Filled(cd, written) ==
    { w \in written : cd[w[1]].pixels[w[2] + w[3] * CHUNK_SIZE] # air }

C14_NoDoubleMove ==
    [][ pc = "scan" =>
          /\ \A w \in Filled(chunk_data', helper'.written) \ Filled(chunk_data, helper.written) :
                /\ WrittenY(w) - loop.y \in {1, 2}
                /\ \/ WrittenY(w) > loop.rect.y2
                   \/ WrittenY(w) > loop.y /\ WrittenY(w) <= loop.rect.y2
          /\ \A w \in Filled(chunk_data', helper'.written) :
                /\ <<WrittenX(w), WrittenY(w)>> # <<loop.x, loop.y>>
                /\ pc' = "scan" =>
                      /\ WrittenY(w) > loop'.y
                      /\ <<WrittenX(w), WrittenY(w)>> # <<loop'.x, loop'.y>> ]_vars

\* The scan goes on in a row above a cell of the rectangle that a move of
\* this call filled.
C14_Witness ==
    /\ pc = "scan"
    /\ \E w \in Filled(chunk_data, helper.written) :
          /\ w[1] = CENTER_CHUNK
          /\ InRect(loop.rect, WrittenX(w), WrittenY(w))
          /\ WrittenY(w) = loop.y + 1

(***************************************************************************)
(* What one simulate_pixel call did, read off the contexts before          *)
(* (scene.chunk_data) and after (chunk_data).                              *)
(***************************************************************************)
Applied == probe # None /\ probe.done /\ "rng" \in DOMAIN probe
Cur == PixelAt(scene.chunk_data, probe.x, probe.y)
\* Whether the cell at an offset from the pixel was Air before the call.
WasAir(dx, dy) == physics(PixelAt(scene.chunk_data, probe.x + dx, probe.y + dy)) = "Air"
\* The pixel's material went to the cell at the offset and nowhere else.
MovedTo(dx, dy) ==
    /\ Changed(scene.chunk_data, chunk_data)
          = {CellOf(probe.x, probe.y), CellOf(probe.x + dx, probe.y + dy)}
    /\ PixelAt(chunk_data, probe.x + dx, probe.y + dy) = Cur
    /\ PixelAt(chunk_data, probe.x, probe.y) = air
    /\ probe.out = air
    /\ particles = <<>>
\* The pixel went into a particle and into no cell.
Detached ==
    /\ Changed(scene.chunk_data, chunk_data) = {CellOf(probe.x, probe.y)}
    /\ PixelAt(chunk_data, probe.x, probe.y) = air
    /\ probe.out = air
    /\ Len(particles) = 1
    /\ particles[1].material = Cur
\* Nothing happened.
Stayed ==
    /\ chunk_data = scene.chunk_data
    /\ probe.out = NoMat
    /\ particles = <<>>
    /\ helper.written = {}
EmptyBelow == \A i \in 0..3 : WasAir(0, i + 2)
FallCondition ==
    WasAir(0, 1) /\ ((~WasAir(-1, 1) /\ ~WasAir(1, 1)) \/ probe.rng.gt_0_1)

(***************************************************************************)
(* C15. Fall branch: a sand pixel takes the fall branch (it goes one or    *)
(* two rows straight down or into a particle) exactly when the cell below  *)
(* is Air and both lower diagonals are not Air or the first float drawn    *)
(* exceeds 0.1.  In that branch, when the four cells from two rows below   *)
(* on are not all Air, it goes two rows down if the coin is true and the   *)
(* cell two rows below is Air, and one row down otherwise; in every case   *)
(* of the branch the source cell becomes air.                              *)
(***************************************************************************)
C15_FallBranch ==
    (Applied /\ physics(Cur) = "Sand") =>
        /\ (Detached \/ MovedTo(0, 1) \/ MovedTo(0, 2)) <=> FallCondition
        /\ (FallCondition /\ ~EmptyBelow) =>
              IF probe.rng.coin /\ WasAir(0, 2) THEN MovedTo(0, 2) ELSE MovedTo(0, 1)
        /\ FallCondition =>
              /\ probe.out = air
              /\ PixelAt(chunk_data, probe.x, probe.y) = air

\* The coin was true but the cell two rows below was blocked: the pixel
\* fell one row, past an open diagonal, on a float above 0.1.
C15_Witness ==
    /\ Applied
    /\ physics(Cur) = "Sand"
    /\ probe.rng.coin /\ probe.rng.gt_0_1
    /\ WasAir(-1, 1)
    /\ ~WasAir(0, 2)
    /\ MovedTo(0, 1)

(***************************************************************************)
(* C16. Particle detachment: in the fall branch, when the four cells from  *)
(* two rows below the sand pixel on are all Air, the step appends exactly  *)
(* one particle that carries the material of the pixel, writes no cell but *)
(* the source, which becomes air, and the particle is at the local         *)
(* coordinate of the pixel plus the coordinates of the center chunk times  *)
(* CHUNK_SIZE.                                                             *)
(***************************************************************************)
C16_ParticleDetachment ==
    (Applied /\ physics(Cur) = "Sand" /\ FallCondition /\ EmptyBelow) =>
        /\ Detached
        /\ helper.written = {<<CENTER_CHUNK, probe.x, probe.y>>}
        /\ particles = << [material |-> Cur,
                           pos |-> << probe.x + origin[1] * CHUNK_SIZE,
                                      probe.y + origin[2] * CHUNK_SIZE >>] >>

\* A sand pixel over open air, next to an open diagonal, went into a
\* particle at its world coordinate.
C16_Witness ==
    /\ Applied
    /\ physics(Cur) = "Sand"
    /\ EmptyBelow
    /\ WasAir(1, 1)
    /\ Detached
    /\ particles[1].pos = << probe.x - CHUNK_SIZE, probe.y + 2 * CHUNK_SIZE >>

(***************************************************************************)
(* C17. Diagonal spread: a sand pixel that does not take the fall branch   *)
(* attempts the spread exactly when the cell above is Air or the float     *)
(* drawn exceeds 0.5.  When it attempts and both lower diagonals are Air   *)
(* it goes to the one the coin chooses and the source becomes air; when it *)
(* attempts and one lower diagonal is Air it moves; when it attempts and   *)
(* neither is Air, and when it does not attempt, it stays: no cell is      *)
(* written and no particle made.                                           *)
(***************************************************************************)
SpreadAttempted == WasAir(0, -1) \/ probe.rng.gt_0_5

C17_DiagonalSpread ==
    (Applied /\ physics(Cur) = "Sand" /\ ~FallCondition) =>
        /\ ~SpreadAttempted => Stayed
        /\ (SpreadAttempted /\ WasAir(-1, 1) /\ WasAir(1, 1)) =>
              IF probe.rng.side_coin THEN MovedTo(1, 1) ELSE MovedTo(-1, 1)
        /\ (SpreadAttempted /\ (WasAir(-1, 1) \/ WasAir(1, 1))) =>
              \E dx \in {-2, -1, 1, 2} : MovedTo(dx, 1)
        /\ (SpreadAttempted /\ ~WasAir(-1, 1) /\ ~WasAir(1, 1)) => Stayed

\* A covered sand pixel on a blocked cell, with both diagonals open and a
\* float above 0.5, went down-left.
C17_Witness ==
    /\ Applied
    /\ physics(Cur) = "Sand"
    /\ ~WasAir(0, -1)
    /\ ~WasAir(0, 1)
    /\ probe.rng.gt_0_5
    /\ MovedTo(-1, 1)
    /\ WasAir(1, 1)

(***************************************************************************)
(* C18. Slope hop.  The statement with the hop cell in the row of the      *)
(* pixel (two columns left at the same row open, two-left-one-down         *)
(* blocked, hop to the cell two columns left) is C18_HopSameRow.  What     *)
(* holds is C18_SlopeHop: in the spread with only the down-left diagonal   *)
(* Air, if the coin is true, the cell two columns left and one row down is *)
(* Air and the cell two columns left and two rows down is not Air, the     *)
(* pixel goes to the cell two columns left and one row down; otherwise it  *)
(* goes to the down-left diagonal; likewise to the right when only the     *)
(* down-right diagonal is Air.  In each case the source becomes air.       *)
(***************************************************************************)
OnlyLeft == ~FallCondition /\ SpreadAttempted /\ WasAir(-1, 1) /\ ~WasAir(1, 1)
OnlyRight == ~FallCondition /\ SpreadAttempted /\ ~WasAir(-1, 1) /\ WasAir(1, 1)

C18_HopSameRow ==
    (Applied /\ physics(Cur) = "Sand") =>
        /\ OnlyLeft =>
              IF probe.rng.coin /\ WasAir(-2, 0) /\ ~WasAir(-2, 1)
              THEN MovedTo(-2, 0) ELSE MovedTo(-1, 1)
        /\ OnlyRight =>
              IF probe.rng.coin /\ WasAir(2, 0) /\ ~WasAir(2, 1)
              THEN MovedTo(2, 0) ELSE MovedTo(1, 1)

C18_SlopeHop ==
    (Applied /\ physics(Cur) = "Sand") =>
        /\ OnlyLeft =>
              IF probe.rng.coin /\ WasAir(-2, 1) /\ ~WasAir(-2, 2)
              THEN MovedTo(-2, 1) ELSE MovedTo(-1, 1)
        /\ OnlyRight =>
              IF probe.rng.coin /\ WasAir(2, 1) /\ ~WasAir(2, 2)
              THEN MovedTo(2, 1) ELSE MovedTo(1, 1)

\* With only the down-left diagonal open the pixel hopped two columns left
\* and one row down, onto a cell with a blocked cell under it.
C18_Witness ==
    /\ Applied
    /\ physics(Cur) = "Sand"
    /\ OnlyLeft
    /\ ~WasAir(-2, 2)
    /\ MovedTo(-2, 1)

(***************************************************************************)
(* C19. Air and Solid are no-ops: for a pixel that is not Sand,            *)
(* simulate_pixel returns no replacement, writes no cell and makes no      *)
(* particle, whatever the cells around it hold.                            *)
(***************************************************************************)
C19_AirSolidNoOp ==
    (Applied /\ physics(Cur) # "Sand") => Stayed

\* A Solid pixel over open air, with open diagonals, stayed.
C19_Witness ==
    /\ Applied
    /\ physics(Cur) = "Solid"
    /\ WasAir(0, 1) /\ WasAir(-1, 1) /\ WasAir(1, 1)
    /\ EmptyBelow
    /\ Stayed

(***************************************************************************)
(* C20. In range: in a chunk step whose center dirty rectangle lies in     *)
(* [0, CHUNK_SIZE) in both axes, the cell the scan is at is in the center  *)
(* chunk, every coordinate the rule can read there (whatever it draws) and *)
(* every cell written maps to a chunk index in 0..8 and a pixel index      *)
(* below CHUNK_SIZE * CHUNK_SIZE, and every dirty rectangle the step       *)
(* leaves lies in [0, CHUNK_SIZE) in both axes, so that the next step      *)
(* starts from a rectangle in range.                                       *)
(***************************************************************************)
IndexInRange(c) ==
    LET idx == local_to_indices(c[1], c[2])
    IN  /\ idx[1] \in 0..8
        /\ idx[2] \in 0 .. (CHUNK_SIZE * CHUNK_SIZE - 1)
RectInRange(r) ==
    /\ 0 <= r.x1 /\ r.x1 <= r.x2 /\ r.x2 < CHUNK_SIZE
    /\ 0 <= r.y1 /\ r.y1 <= r.y2 /\ r.y2 < CHUNK_SIZE
\* What the rule can read at the cell the scan is at, over all draws.
ReadsAtLoop ==
    LET cur == get_pixel_local_unchecked(HelperOf(ThisRun), loop.x, loop.y)
    IN  UNION { simulate_pixel_reads(loop.x, loop.y, cur, HelperOf(ThisRun), rng) :
                rng \in DrawsFor(cur) }

C20_InRange ==
    /\ pc = "scan" =>
          /\ RectInRange(loop.rect)
          /\ InRect(loop.rect, loop.x, loop.y)
          /\ IndexInRange(<<loop.x, loop.y>>)
          /\ local_to_indices(loop.x, loop.y)[1] = CENTER_CHUNK
          /\ \A c \in ReadsAtLoop : IndexInRange(c)
    /\ \A w \in helper.written :
          /\ w[1] \in 0..8
          /\ w[2] \in 0 .. (CHUNK_SIZE - 1)
          /\ w[3] \in 0 .. (CHUNK_SIZE - 1)
    /\ \A i \in 0..8 :
          chunk_data[i].dirty_rect # None => RectInRange(chunk_data[i].dirty_rect)

\* The scan is at a sand pixel of the last row; the rule looks down to the
\* last row of the south chunk and sideways into the west chunk.
C20_Witness ==
    /\ pc = "scan"
    /\ loop.y = CHUNK_SIZE - 1
    /\ \E c \in ReadsAtLoop :
          /\ c[2] = 2 * CHUNK_SIZE - 1
          /\ local_to_indices(c[1], c[2])[1] = 7
          /\ local_to_indices(c[1], c[2])[2] >= CHUNK_SIZE * (CHUNK_SIZE - 1)
    /\ \E c \in ReadsAtLoop : c[1] < 0

(***************************************************************************)
(* What a neighbour read of the rigid-body helper looked at.               *)
(***************************************************************************)
Looked == probe # None /\ probe.done /\ "i" \in DOMAIN probe
\* The query point in the local space of a physics body: the inverse of
\* the body's rotation and translation, truncated.
InverseLocal(body, x, y) ==
    LET s == sin(-body.angle)
        c == cos(-body.angle)
        tx == f32_from(x) - body.translation[1]
        ty == f32_from(y) - body.translation[2]
    IN  << f32_as_i32(tx * c - ty * s), f32_as_i32(tx * s + ty * c) >>
HasBody(k) == get_body(rigidbodies[k], physics_world) # None
LocalAt(k) == InverseLocal(get_body(rigidbodies[k], physics_world), probe.x, probe.y)
LocalIndex(k) == LocalAt(k)[1] + LocalAt(k)[2] * rigidbodies[k].width
\* The local coordinate is inside the grid of body k.
InsideGrid(k) ==
    /\ 0 <= LocalAt(k)[1] /\ LocalAt(k)[1] < rigidbodies[k].width
    /\ 0 <= LocalAt(k)[2] /\ LocalAt(k)[2] < rigidbodies[k].height
\* The local coordinate passes the test the lookup makes: both below width.
PassesTest(k) ==
    /\ 0 <= LocalAt(k)[1] /\ LocalAt(k)[1] < rigidbodies[k].width
    /\ 0 <= LocalAt(k)[2] /\ LocalAt(k)[2] < rigidbodies[k].width
WorldHas == ChunkHandler_loaded(chunk_handler, probe.x, probe.y)
WorldMat ==
    chunk_handler[pixel_to_chunk_pos(probe.x, probe.y)].pixels[ChunkPixelIndex(probe.x, probe.y)]
FirstOf(S) == CHOOSE k \in S : \A j \in S : k <= j

(***************************************************************************)
(* C21.  How a neighbour read resolves.  The statement that the read gives *)
(* the world pixel where a chunk is loaded and the pixel is not air, else  *)
(* the pixel of the first body other than the stepped one whose local      *)
(* coordinate is inside its grid and whose pixel there is not air, else    *)
(* air, is C21_OthersOnly.  What holds is C21_ReadPriority: the read gives *)
(* the world pixel where a chunk is loaded and the pixel is not air;       *)
(* otherwise it goes through all the bodies that have a physics body, in   *)
(* list order, the stepped one among them, and stops at the first whose    *)
(* local coordinate (nx, ny) has 0 <= nx < width and 0 <= ny < width and   *)
(* whose cell nx + ny * width is outside the grid (the read panics) or     *)
(* holds a pixel that is not air (the read gives that pixel); otherwise    *)
(* it gives air.                                                           *)
(***************************************************************************)
C21_OthersOnly ==
    Looked =>
        LET hits == { k \in 1..Len(rigidbodies) :
                        /\ k # probe.i
                        /\ HasBody(k)
                        /\ InsideGrid(k)
                        /\ rigidbodies[k].pixels[LocalIndex(k)] # air }
        IN  probe.out = IF WorldHas /\ WorldMat # air THEN WorldMat
                        ELSE IF hits # {} THEN rigidbodies[FirstOf(hits)].pixels[LocalIndex(FirstOf(hits))]
                        ELSE air

C21_ReadPriority ==
    Looked =>
        LET stops == { k \in 1..Len(rigidbodies) :
                         /\ HasBody(k)
                         /\ PassesTest(k)
                         /\ \/ LocalIndex(k) \notin DOMAIN rigidbodies[k].pixels
                            \/ rigidbodies[k].pixels[LocalIndex(k)] # air }
        IN  probe.out = IF WorldHas /\ WorldMat # air THEN WorldMat
                        ELSE IF stops = {} THEN air
                        ELSE IF LocalIndex(FirstOf(stops)) \notin DOMAIN rigidbodies[FirstOf(stops)].pixels
                        THEN Panic
                        ELSE rigidbodies[FirstOf(stops)].pixels[LocalIndex(FirstOf(stops))]

\* The read gave a sand pixel of the stepped body, at a coordinate where
\* the world is air and a second body holds stone.
C21_Witness ==
    /\ Looked
    /\ probe.out = sand
    /\ WorldHas /\ WorldMat = air
    /\ Len(rigidbodies) = 2
    /\ HasBody(2) /\ InsideGrid(2)
    /\ rigidbodies[2].pixels[LocalIndex(2)] = stone

(***************************************************************************)
(* C22.  Every local pixel of a body is stepped: whenever the loops of     *)
(* simulate_rigidbodies are at a cell (rb_x, rb_y) of a body with a        *)
(* physics body, 0 <= rb_x < width and 0 <= rb_y < height, the grid is     *)
(* read at rb_x + rb_y * width, and that index is inside the grid.  The    *)
(* loops run rb_y below width and rb_x below height, so this fails for     *)
(* every body whose width and height differ.                               *)
(***************************************************************************)
AtCell == step # None /\ step.pc = "pixel"
C22_EveryCellStepped ==
    AtCell =>
        LET rb == rigidbodies[step.i]
        IN  /\ step.rb_x < rb.width
            /\ step.rb_y < rb.height
            /\ cell_index(step.rb_x, step.rb_y, rb.width) \in DOMAIN rb.pixels

(***************************************************************************)
(* C23.  In-bounds body lookup: a neighbour read looks at a candidate's    *)
(* pixel only where the local coordinate has 0 <= x < width and            *)
(* 0 <= y < height, so neither the pixel read nor the color read ever      *)
(* indexes outside a candidate's grid.  The reads compare y with the       *)
(* width, so this fails for a body that is wider than high.                *)
(***************************************************************************)
C23_InBoundsLookup ==
    Looked => probe.out # Panic /\ probe.color # Panic

(***************************************************************************)
(* C24.  Material is not lost or duplicated by the rigid-body step: while  *)
(* and after a simulate_rigidbodies call that did not panic, the sand held *)
(* by the world chunks, the pixel grids of the bodies and the particles    *)
(* together is the sand there was at the start of the call, also when a    *)
(* destination lies where no chunk is loaded.  The write to a place with   *)
(* no chunk is dropped while the source cell is cleared, so this fails.    *)
(***************************************************************************)
SandInWorld(ch) ==
    Cardinality({ d \in WorldCoordinates(ch) : WorldPixel(ch, d) = sand })
SandInBodies(rbs) ==
    Cardinality(UNION { { <<k, c>> : c \in { q \in DOMAIN rbs[k].pixels : rbs[k].pixels[q] = sand } } :
                        k \in 1..Len(rbs) })
SandInParticles(ps) == Cardinality({ k \in 1..Len(ps) : ps[k].material = sand })
SandHeld == SandInWorld(chunk_handler) + SandInBodies(rigidbodies) + SandInParticles(particles)
Stepping == step # None /\ step.pc \in {"pixel", "loops_done", "done"}
\* Every destination of a cell of a body lies where a chunk is loaded.
DestinationsLoaded ==
    \A d \in {<<dx, dy>> : dx \in -1 .. (MaxSide + 3), dy \in (CHUNK_SIZE - 2) .. (CHUNK_SIZE + 2)} :
        ChunkHandler_loaded(chunk_handler, d[1], d[2])

C24_MaterialConserved ==
    Stepping => SandHeld = SandInWorld(scene.chunk_handler) + SandInBodies(scene.rigidbodies)

\* The same where a chunk is loaded at every destination.
C24_ConservedWhereLoaded ==
    (Stepping /\ DestinationsLoaded) =>
        SandHeld = SandInWorld(scene.chunk_handler) + SandInBodies(scene.rigidbodies)

(***************************************************************************)
(* C25.  Image refresh flag: after simulate_rigidbodies every body in      *)
(* which a pixel changed during the step and which was not flagged for     *)
(* remesh has image_dirty true, and a body in which no pixel changed has   *)
(* the image_dirty it had before the step.  (A body keeps its place in the *)
(* list as long as no body before it was flagged.)                         *)
(***************************************************************************)
KeepsPlace(k) == \A j \in 1..k : ~step.needs_remesh[j]
C25_ImageRefresh ==
    (step # None /\ step.pc = "done") =>
        \A k \in 1..Len(scene.rigidbodies) :
            KeepsPlace(k) =>
                IF rigidbodies[k].pixels # scene.rigidbodies[k].pixels
                THEN rigidbodies[k].image_dirty
                ELSE rigidbodies[k].image_dirty = scene.rigidbodies[k].image_dirty

\* The step has ended; a sand pixel left the first body, whose image is now
\* to be refreshed, and the second body, stepped and unchanged, is not.
C25_Witness ==
    /\ step # None /\ step.pc = "done"
    /\ Len(rigidbodies) = 2
    /\ rigidbodies[1].pixels # scene.rigidbodies[1].pixels
    /\ ~scene.rigidbodies[1].image_dirty /\ rigidbodies[1].image_dirty
    /\ rigidbodies[2].body # <<>>
    /\ rigidbodies[2].pixels = scene.rigidbodies[2].pixels
    /\ ~rigidbodies[2].image_dirty

(***************************************************************************)
(* C26.  Missing world data reads as air: a neighbour read at a world      *)
(* coordinate with no chunk does not panic; where no body with a physics   *)
(* body has the coordinate inside its grid the pixel read gives air and    *)
(* the color read gives the transparent color.  The scan the read falls    *)
(* through to compares the row with the width (C23), so a body wider than  *)
(* high that lies beside the coordinate makes the read panic.              *)
(***************************************************************************)
Covered == \E k \in 1..Len(rigidbodies) : HasBody(k) /\ InsideGrid(k)
C26_MissingReadsAir ==
    (Looked /\ ~WorldHas) =>
        /\ probe.out # Panic /\ probe.color # Panic
        /\ ~Covered => probe.out = air /\ probe.color = color(air)

\* The same where no body is wider than high.
C26_AirWhereNotWider ==
    (Looked /\ ~WorldHas /\ \A k \in 1..Len(rigidbodies) :
                               rigidbodies[k].width <= rigidbodies[k].height) =>
        /\ probe.out # Panic /\ probe.color # Panic
        /\ ~Covered => probe.out = air /\ probe.color = color(air)

(***************************************************************************)
(* C27.  Moves never overwrite material: in every step of a sequence of    *)
(* simulate_chunk calls a cell whose pixel changes either was Sand and     *)
(* becomes air (it is the cell the scan is at) or was Air and takes the    *)
(* sand of the cell the scan is at; a cell that is neither Air nor Sand    *)
(* keeps its pixel and its color; and the cell two rows under the source   *)
(* is written only when the cell one row under it is Air.                  *)
(***************************************************************************)
C27_NoOverwrite ==
    [][ \E changed \in {Changed(chunk_data, chunk_data')} :
          /\ changed # {} => pc = "scan"
          /\ \A c \in changed :
                LET src == CellOf(loop.x, loop.y)
                    cur == PixelAt(chunk_data, loop.x, loop.y)
                    was == chunk_data[c[1]].pixels[c[2]]
                    now == chunk_data'[c[1]].pixels[c[2]]
                IN  /\ physics(cur) = "Sand"
                    /\ IF c = src
                       THEN now = air
                       ELSE physics(was) = "Air" /\ now = cur
                    /\ c = CellOf(loop.x, loop.y + 2) =>
                          physics(PixelAt(chunk_data, loop.x, loop.y + 1)) = "Air"
          /\ \A i \in 0..8 : \A q \in DOMAIN chunk_data[i].pixels :
                physics(chunk_data[i].pixels[q]) \notin {"Air", "Sand"} =>
                    /\ chunk_data'[i].pixels[q] = chunk_data[i].pixels[q]
                    /\ chunk_data'[i].colors[q] = chunk_data[i].colors[q] ]_vars

\* In the call under way a cell was written that now holds sand and lies on
\* stone, and the two cells above it are air.
C27_Witness ==
    /\ pc = "scan"
    /\ \E w \in helper.written :
          LET x == ((w[1] % 3) - 1) * CHUNK_SIZE + w[2]
              y == ((w[1] \div 3) - 1) * CHUNK_SIZE + w[3]
          IN  /\ y + 1 <= 2 * CHUNK_SIZE - 1 /\ y - 2 >= -CHUNK_SIZE
              /\ PixelAt(chunk_data, x, y) = sand
              /\ PixelAt(chunk_data, x, y + 1) = stone
              /\ PixelAt(chunk_data, x, y - 1) = air
              /\ PixelAt(chunk_data, x, y - 2) = air

(***************************************************************************)
(* C28.  Quiescence means settled: when a simulate_chunk call that scanned *)
(* the dirty rectangle the calls before it left has returned with the      *)
(* center dirty rectangle None, every sand pixel of the center chunk has   *)
(* cells that are not Air straight down, down-left and down-right.  A call *)
(* in which the draws keep a covered sand pixel where it is writes nothing *)
(* and leaves the rectangle None, so this fails.                           *)
(***************************************************************************)
CenterCells == { <<x, y>> : x \in 0 .. (CHUNK_SIZE - 1), y \in 0 .. (CHUNK_SIZE - 1) }
Settled(cd, x, y) ==
    /\ physics(PixelAt(cd, x, y + 1)) # "Air"
    /\ physics(PixelAt(cd, x - 1, y + 1)) # "Air"
    /\ physics(PixelAt(cd, x + 1, y + 1)) # "Air"
C28_QuietMeansSettled ==
    (Quiet /\ helper.last_call = "scanned") =>
        \A c \in CenterCells :
            physics(PixelAt(chunk_data, c[1], c[2])) = "Sand" => Settled(chunk_data, c[1], c[2])

(***************************************************************************)
(* C29.  Northern neighbours are read-only: no step of a simulate_chunk    *)
(* call changes the pixels, colors, lights or the dirty flag of the chunks *)
(* 0, 1 and 2; their dirty rectangle either stays or becomes None, and     *)
(* when a call returns it is None.                                         *)
(***************************************************************************)
Northern == {0, 1, 2}
C29_NorthernReadOnly ==
    [][ \A i \in Northern :
          /\ chunk_data'[i].pixels = chunk_data[i].pixels
          /\ chunk_data'[i].colors = chunk_data[i].colors
          /\ chunk_data'[i].lights = chunk_data[i].lights
          /\ chunk_data'[i].dirty = chunk_data[i].dirty
          /\ chunk_data'[i].dirty_rect \in {chunk_data[i].dirty_rect, None}
          /\ pc' = "idle" => chunk_data'[i].dirty_rect = None ]_vars

\* A call that scanned and wrote has returned; the chunk north of the center
\* holds a sand pixel and its dirty rectangle is None.
C29_Witness ==
    /\ pc = "idle" /\ helper.last_call = "scanned"
    /\ helper.written # {}
    /\ \E q \in DOMAIN chunk_data[1].pixels : chunk_data[1].pixels[q] = sand
    /\ \A i \in Northern : chunk_data[i].dirty_rect = None

(***************************************************************************)
(* C30.  Remesh is unreachable under the current rule: in no step of a     *)
(* sequence of simulate_rigidbodies calls is a body flagged for remesh, a  *)
(* handle removed or a body rebuilt; the physics world stays as it is and  *)
(* the list keeps its length and, place by place, its handles and sizes.   *)
(***************************************************************************)
C30_RemeshUnreachable ==
    [][ /\ step'.pc \in {"pixel", "loops_done", "done"} =>
              /\ \A k \in 1..Len(rigidbodies') : ~step'.needs_remesh[k]
              /\ step'.removed = <<>>
              /\ step'.rebuilt = <<>>
        /\ physics_world' = physics_world
        /\ Len(rigidbodies') = Len(rigidbodies)
        /\ \A k \in 1..Len(rigidbodies) :
              /\ rigidbodies'[k].body = rigidbodies[k].body
              /\ rigidbodies'[k].width = rigidbodies[k].width
              /\ rigidbodies'[k].height = rigidbodies[k].height ]_vars

\* A call has ended that started from a first body that had lost sand in
\* an earlier call and lost sand again: nothing is flagged, the list and
\* the physics world are those of the start.
C30_Witness ==
    /\ step.pc = "done"
    /\ \E c \in DOMAIN scene.rigidbodies[1].pixels : scene.rigidbodies[1].pixels[c] = air
    /\ rigidbodies[1].pixels # scene.rigidbodies[1].pixels
    /\ step.dirty[1] /\ ~step.needs_remesh[1]
    /\ Len(rigidbodies) = 2
    /\ rigidbodies[1].body = <<1>> /\ rigidbodies[2].body = <<2>>
    /\ DOMAIN physics_world.bodies = {1, 2}

====
